---- MODULE Spec2Model ----
(***************************************************************************)
(* Session manager of the point-of-sale client                             *)
(* (src/src/contexts/UserContext.jsx): the UserProvider of every open tab, *)
(* the localStorage the tabs share, the auto-logout timer, the requests in *)
(* flight and the storage events between tabs.                             *)
(*                                                                         *)
(* Time is counted in units of 500 ms, the skew that scheduleAutoLogout    *)
(* adds to the delay of its timer: payload.exp * 1000 ms is exp * 2 units  *)
(* and the skew is 1 unit.  The empty string and null are written 0.       *)
(***************************************************************************)
EXTENDS Integers, Sequences, FiniteSets, TLC

\* ---------------------------------------------------------------- bounds
MaxTime == 5
NumUsers == 2
\* requests in flight at the same time, over all tabs
MaxInflight == 2
\* device requests waiting for approval
MaxRequestId == 2
\* rows of sales and expenses the backend answers to one load of the dashboard
MaxRecords == 3
\* characters of a string handed to an amount normaliser
MaxLen == 4

\* ------------------------------------------------------------- constants
\* payload.exp is in seconds; Date.now() in ms (here: units of 500 ms)
UnitsPerSecond == 2
\* the "+ 500" of setTimeout(..., msLeft + 500)
SkewUnits == 1
\* largest delay setTimeout keeps: 2^31 - 1 ms, in units of 500 ms
MaxTimeoutUnits == 4294967

Tabs == {1, 2}
Users == 1..NumUsers

\* Tokens the backend may issue, by what their payload decodes to:
\*   1  no usable exp claim (not three parts, bad base64/JSON, exp missing)
\*   2  exp = 0
\*   3  exp = 2 s      (in the future at first, in the past from now = 4 on)
\*   4  exp = 2592002 s (30 days ahead)
Tokens == {1, 2, 3, 4}

TOKEN_KEY == "token"
USER_KEY == "auth_user"

VARIABLES
  cfg,             \* the run: which tabs are open, what the backend answers
  now,             \* Date.now()
  storage,         \* localStorage: [token, auth_user], shared by the tabs
  token,           \* state.token of each tab
  user,            \* state.user of each tab
  pendingApproval, \* state.pendingApproval of each tab
  timers,          \* timeouts of each tab that are scheduled and not yet run
  logoutTimerRef,  \* logoutTimerRef.current of each tab
  loginSent,       \* a POST /login of the tab is in flight
  logoutSent,      \* a POST /logout of the tab is in flight
  fetchTok,        \* token of the tab's GET /current-user in flight, 0 if none
  storageEvents,   \* "storage" events for TOKEN_KEY not yet handled, by newValue
  emitted,         \* window events dispatched by the last step
  ret,             \* what the handler run by the last step returned
  bootProfile,     \* history: profile fetch issued at page load
  deviceRequests,  \* state.deviceRequests of each tab: ids of the cached list
  deviceSummary,   \* state.deviceSummary of each tab: the pending count, -1 for {}
  revoked,         \* history: a call of the tab carrying a token was answered
                   \* 401 and no login has succeeded since
  backend,         \* what the backend answers to the fetches of the dashboard
  salesSummary,    \* salesSummary of AdminDashboard
  expenses,        \* expenses of AdminDashboard
  cogsSummary,     \* cogsSummary.totals of AdminDashboard
  amountIn,        \* the value handed to the amount normalisers
  amountOut,       \* what each normaliser made of it, and of its own result
  pick,            \* a record handed to the field pickers and what they returned
  refresh,         \* AdminDashboard: filters, loads in flight, cartonsSummary,
                   \* the toast of the last load
  cashier,         \* CashierSale: sales, expensesTotal, cogsPurchasesTotal
  route,           \* the visitor of /admin/users and what the route renders
  server           \* the tokens the server has revoked

\* the state of the other pages
otherPages == <<pick, refresh, cashier, route, server>>

\* the state of the pages
pageVars == <<backend, salesSummary, expenses, cogsSummary, amountIn, amountOut,
              otherPages>>

vars == <<cfg, now, storage, token, user, pendingApproval, timers, logoutTimerRef,
          loginSent, logoutSent, fetchTok, storageEvents, emitted, ret,
          bootProfile, deviceRequests, deviceSummary, revoked, pageVars>>

\* ------------------------------------------------------- pure functions

JwtPayload(tok) ==
  CASE tok = 2 -> [hasExp |-> TRUE, exp |-> 0]
    [] tok = 3 -> [hasExp |-> TRUE, exp |-> 2]
    [] tok = 4 -> [hasExp |-> TRUE, exp |-> 2592002]
    [] OTHER   -> [hasExp |-> FALSE, exp |-> 0]

\* decodeJwtExp: null, or payload.exp * 1000
decodeJwtExp(tok) ==
  IF JwtPayload(tok).hasExp
  THEN [isNull |-> FALSE, ms |-> JwtPayload(tok).exp * UnitsPerSecond]
  ELSE [isNull |-> TRUE, ms |-> 0]

\* JavaScript's !expMs
Falsy(expMs) == expMs.isNull \/ expMs.ms = 0

\* delay that setTimeout really waits: the delay is converted to a signed
\* 32-bit integer, so a delay in (2^31 - 1, 2^32) ms becomes negative and the
\* callback runs as with delay 0 (the tokens above stay below 2^32 ms)
TimerDelay(delay) == IF delay > MaxTimeoutUnits THEN 0 ELSE delay

NoTimer == [tok |-> 0, fireAt |-> 0]
NoPending == [present |-> FALSE, ip |-> "", user_agent |-> "", request_id |-> 0]
NoBody == [ip |-> "", user_agent |-> "", request_id |-> 0]
NoSummary == [present |-> FALSE, pending |-> 0]

\* bodies of a device-restriction answer
DeviceBodies ==
  { [ip |-> "10.0.0.7", user_agent |-> "Firefox", request_id |-> 1],
    [ip |-> "10.0.0.9", user_agent |-> "Chrome", request_id |-> 0] }

\* ids of the device requests an admin may list, approve or reject
RequestIds == 1..MaxRequestId

\* The runs explored: one tab against a backend that issues every kind of
\* token, user and device answer, and two tabs on one localStorage against a
\* backend whose tokens are all of kind 3 (they expire during the run)
Configs ==
  { [tabs |-> {1}, tokens |-> Tokens, users |-> Users, bodies |-> DeviceBodies,
     ids |-> {}],
    [tabs |-> Tabs, tokens |-> {3}, users |-> {1},
     bodies |-> {[ip |-> "10.0.0.7", user_agent |-> "Firefox", request_id |-> 1]},
     ids |-> {}] }

\* The run of the back office: one tab whose user works on the device
\* requests (ids) and calls the other providers, with tokens of kind 1
AdminConfig ==
  [tabs |-> {1}, tokens |-> {1}, users |-> {1}, bodies |-> DeviceBodies,
   ids |-> RequestIds]

\* ----------------------------------------------- the provider's helpers
\* They act on W, the part of the state a handler can change while it runs:
\* [token, user, timers, ref, storage, sev, emitted].

World ==
  [token |-> token, user |-> user, timers |-> timers, ref |-> logoutTimerRef,
   storage |-> storage, sev |-> storageEvents, emitted |-> {}]

\* localStorage.setItem / removeItem by tab t; a change of TOKEN_KEY raises a
\* "storage" event in every other tab (events for other keys are dropped by
\* the first conjunct of onStorage and are not queued)
WriteItem(W, t, key, v) ==
  IF W.storage[key] = v THEN W
  ELSE [W EXCEPT !.storage[key] = v,
                 !.sev = [o \in Tabs |->
                            IF o = t \/ o \notin cfg.tabs \/ key # TOKEN_KEY
                            THEN W.sev[o]
                            ELSE W.sev[o] \cup {v}]]

\* a reducer whose SET_AUTH case sets the token and forgets the user
reducer_SET_AUTH_tokenOnly(W, t, tok, u) ==
  [W EXCEPT !.token[t] = tok]

\* reducer, case "SET_AUTH"
reducer_SET_AUTH(W, t, tok, u) ==
  [W EXCEPT !.token[t] = tok, !.user[t] = u]

clearLogoutTimer(W, t) ==
  IF W.ref[t] # NoTimer
  THEN [W EXCEPT !.timers[t] = @ \ {W.ref[t]}, !.ref[t] = NoTimer]
  ELSE W

Emit(W, name) == [W EXCEPT !.emitted = @ \cup {name}]

clearAuth(W, t) ==
  LET W1 == WriteItem(WriteItem(W, t, TOKEN_KEY, 0), t, USER_KEY, 0)
      W2 == clearLogoutTimer(W1, t)
      W3 == reducer_SET_AUTH(W2, t, 0, 0)
  IN  Emit(W3, "auth:logout")

setTimeout(W, t, tok, delay) ==
  LET tm == [tok |-> tok, fireAt |-> now + TimerDelay(delay)]
  IN  [W EXCEPT !.timers[t] = @ \cup {tm}, !.ref[t] = tm]

\* a scheduleAutoLogout that does not cancel the timer it replaces
scheduleAutoLogout_noCancel(W, t, tok) ==
  LET expMs == decodeJwtExp(tok)
      msLeft == expMs.ms - now
  IN  IF Falsy(expMs) THEN W
      ELSE IF msLeft <= 0 THEN clearAuth(W, t)
      ELSE setTimeout(W, t, tok, msLeft + SkewUnits)

scheduleAutoLogout(W, t, tok) ==
  LET W1 == clearLogoutTimer(W, t)
      expMs == decodeJwtExp(tok)
      msLeft == expMs.ms - now
  IN  IF Falsy(expMs) THEN W1
      ELSE IF msLeft <= 0 THEN clearAuth(W1, t)
      ELSE setTimeout(W1, t, tok, msLeft + SkewUnits)

\* a persistAuth that does not write the user to localStorage
persistAuth_noUserKey(W, t, tok, u) ==
  LET W1 == WriteItem(W, t, TOKEN_KEY, tok)
      W3 == reducer_SET_AUTH(W1, t, tok, u)
  IN  IF tok # 0 THEN scheduleAutoLogout(W3, t, tok)
      ELSE clearLogoutTimer(W3, t)

persistAuth(W, t, tok, u) ==
  LET W1 == WriteItem(W, t, TOKEN_KEY, tok)
      W2 == WriteItem(W1, t, USER_KEY, u)
      W3 == reducer_SET_AUTH(W2, t, tok, u)
  IN  IF tok # 0 THEN scheduleAutoLogout(W3, t, tok)
      ELSE clearLogoutTimer(W3, t)

\* getToken: state.token || localStorage.getItem(TOKEN_KEY) || ""
getToken(t) == IF token[t] # 0 THEN token[t] ELSE storage[TOKEN_KEY]

\* a request that treats every failure as the end of the session
requestCatch_anyFailure(W, t, status) ==
  Emit(clearAuth(W, t), "auth:unauthorized")

\* a request whose catch leaves the session alone
requestCatch_keepSession(W, t, status) == W

\* catch block of request: status 0 stands for a fetch that was rejected
\* (no response), any other status for a response that is not ok
requestCatch(W, t, status) ==
  IF status = 401
  THEN Emit(clearAuth(W, t), "auth:unauthorized")
  ELSE W

\* ------------------------------------------------------------- plumbing

Commit(W) ==
  /\ token' = W.token
  /\ user' = W.user
  /\ timers' = W.timers
  /\ logoutTimerRef' = W.ref
  /\ storage' = W.storage
  /\ storageEvents' = W.sev
  /\ emitted' = W.emitted

\* an answer of the backend: status (0: no answer), the token and user of a
\* login or profile body (for the other calls: the token the request
\* carried), the device-restriction mark and body of an error, the list of a
\* device-requests answer
Resp(status, tok, u, device, body) ==
  [status |-> status, token |-> tok, user |-> u, device |-> device, body |-> body,
   list |-> {}]

NoResp == Resp(0, 0, 0, FALSE, NoBody)

\* the handler tab t ran, what it returned, the answer or input it got and
\* the state.token the tab had when the step began
Ret(t, op, kind, r) ==
  [tab |-> t, op |-> op, kind |-> kind, in |-> r,
   was |-> IF t \in Tabs THEN token[t] ELSE 0]

\* history of the profile fetch of the page load: it is over as soon as the
\* tab no longer holds a token without a user
BootProfileAfter(W, t, v) ==
  [bootProfile EXCEPT ![t] = IF W.token[t] # 0 /\ W.user[t] = 0 THEN v ELSE "none"]

NoRet == Ret(0, "none", "none", NoResp)

\* ------------------------------------------------------------ page load

\* initialState and the mount effect ("On boot") of tab t: the state is read
\* from localStorage, a token with a usable exp gets its timer or is cleared,
\* and a token without a user starts fetchCurrentUser
pageLoad(W, t) ==
  LET tok == W.storage[TOKEN_KEY]
      W1 == [W EXCEPT !.token[t] = tok, !.user[t] = W.storage[USER_KEY],
                      !.timers[t] = {}, !.ref[t] = NoTimer, !.sev[t] = {}]
      exp == decodeJwtExp(tok)
      msLeft == exp.ms - now
  IN  IF tok = 0 \/ Falsy(exp) THEN W1
      ELSE IF msLeft > 0
           THEN setTimeout(clearLogoutTimer(W1, t), t, tok, msLeft + SkewUnits)
           ELSE clearAuth(W1, t)

\* the request the mount effect leaves in flight: state.token && !state.user
bootFetch(W) ==
  IF W.storage[TOKEN_KEY] # 0 /\ W.storage[USER_KEY] = 0
  THEN W.storage[TOKEN_KEY] ELSE 0

\* ==================================================== amount normalisers
\* num (src/src/pages/AdminDashboard.jsx), toNum (the sale provider) and
\* toNum (src/src/pages/CashierSale.jsx).

\* JavaScript values: null, undefined, numbers (finite ones are integers
\* here), strings (sequences of characters), booleans and objects
JsNull == [type |-> "null", n |-> 0, s |-> <<>>]
JsUndefined == [type |-> "undefined", n |-> 0, s |-> <<>>]
Fin(n) == [type |-> "number", n |-> n, s |-> <<>>]
JsNaN == [type |-> "NaN", n |-> 0, s |-> <<>>]
JsInfinity == [type |-> "Infinity", n |-> 0, s |-> <<>>]
JsTrue == [type |-> "boolean", n |-> 1, s |-> <<>>]
JsObject == [type |-> "object", n |-> 0, s |-> <<>>]
Str(s) == [type |-> "string", n |-> 0, s |-> s]

\* the characters of the strings explored (lower case; no ".", "e" or "0":
\* every number a string denotes is a decimal integer)
Chars == {"1", "5", "-", ",", " ", "k", "s", "h", "x"}
DigitChars == {"1", "5"}
\* \w of a regular expression
WordChars == {"1", "5", "k", "s", "h", "x"}

DigitValue(c) == IF c = "1" THEN 1 ELSE 5

\* s.substring(i - 1, i - 1 + Len(p)) = p
MatchAt(s, i, p) ==
  /\ i + Len(p) - 1 <= Len(s)
  /\ \A k \in 1..Len(p) : s[i + k - 1] = p[k]

\* \b between s[i - 1] and s[i]
WordBoundary(s, i) ==
  LET before == i > 1 /\ s[i - 1] \in WordChars
      after == i <= Len(s) /\ s[i] \in WordChars
  IN  before # after

\* length of the match of /kes|ksh/ at position i, 0 if none
MatchCurrency(s, i) ==
  IF MatchAt(s, i, <<"k", "e", "s">>) \/ MatchAt(s, i, <<"k", "s", "h">>)
  THEN 3 ELSE 0

\* length of the match of /(kes|ksh|\bsh\b|\bkes\.)/ at position i, 0 if none
MatchCurrencyOrSh(s, i) ==
  IF MatchCurrency(s, i) # 0 THEN 3
  ELSE IF MatchAt(s, i, <<"s", "h">>) /\ WordBoundary(s, i) /\ WordBoundary(s, i + 2)
       THEN 2
       ELSE 0

RECURSIVE ReplaceFrom(_, _, _)
\* s.replace(/.../g, "") from position i on: the matches are found from left
\* to right in s as it is, what is left is not searched again; sh says
\* which of the two expressions
ReplaceFrom(s, i, sh) ==
  IF i > Len(s) THEN <<>>
  ELSE LET m == IF sh THEN MatchCurrencyOrSh(s, i) ELSE MatchCurrency(s, i) IN
       IF m # 0 THEN ReplaceFrom(s, i + m, sh)
       ELSE <<s[i]>> \o ReplaceFrom(s, i + 1, sh)

\* s.replace(/[...]/g, "") for the set of characters drop
RECURSIVE Without(_, _)
Without(s, drop) ==
  IF s = <<>> THEN <<>>
  ELSE (IF Head(s) \in drop THEN <<>> ELSE <<Head(s)>>) \o Without(Tail(s), drop)

RECURSIVE DigitsValue(_)
DigitsValue(s) ==
  IF s = <<>> THEN 0
  ELSE 10 * DigitsValue(SubSeq(s, 1, Len(s) - 1)) + DigitValue(s[Len(s)])

AllDigits(s) == s # <<>> /\ \A k \in 1..Len(s) : s[k] \in DigitChars

\* Number(s) of a string without white space: [nan, n]
StringToNumber(s) ==
  IF s = <<>> THEN [nan |-> FALSE, n |-> 0]
  ELSE IF AllDigits(s) THEN [nan |-> FALSE, n |-> DigitsValue(s)]
  ELSE IF Head(s) = "-" /\ AllDigits(Tail(s))
       THEN [nan |-> FALSE, n |-> 0 - DigitsValue(Tail(s))]
       ELSE [nan |-> TRUE, n |-> 0]

\* Number(v) of a value that is neither a finite number nor a string,
\* followed by "Number.isFinite(n) ? n : 0"
FiniteOr0(v) == IF v.type = "boolean" THEN v.n ELSE 0

\* "Number.isFinite(n) ? n : 0" for n = Number(cleaned)
ParsedOr0(cleaned) ==
  IF StringToNumber(cleaned).nan THEN 0 ELSE StringToNumber(cleaned).n

\* num of the admin dashboard
num(v) ==
  IF v.type \in {"null", "undefined"} THEN 0
  ELSE IF v.type = "number" THEN v.n
  ELSE IF v.type = "string"
       THEN ParsedOr0(Without(ReplaceFrom(v.s, 1, FALSE), {",", " "}))
       ELSE FiniteOr0(v)

\* toNum of the sale provider: after the currency words, commas and white
\* space it drops every character that is not a digit, a dot or a minus
toNum(v) ==
  IF v.type \in {"null", "undefined"} THEN 0
  ELSE IF v.type = "number" THEN v.n
  ELSE IF v.type = "string"
       THEN ParsedOr0(Without(Without(ReplaceFrom(v.s, 1, TRUE), {",", " "}),
                              Chars \ (DigitChars \cup {"-"})))
       ELSE FiniteOr0(v)

\* toNum of the cashier page: no test for null or undefined, Number(null)
\* is 0 and Number(undefined) is NaN
toNumCashier(v) ==
  IF v.type = "number" THEN v.n
  ELSE IF v.type = "string"
       THEN ParsedOr0(Without(ReplaceFrom(v.s, 1, FALSE), {",", " "}))
       ELSE FiniteOr0(v)

RECURSIVE Strings(_)
\* the strings of at most n characters
Strings(n) ==
  IF n = 0 THEN {<<>>}
  ELSE LET shorter == Strings(n - 1) IN
       shorter \cup {Append(s, c) : s \in {x \in shorter : Len(x) = n - 1}, c \in Chars}

\* the values the normalisers are applied to
AmountInputs ==
  {JsNull, JsUndefined, JsNaN, JsInfinity, JsTrue, JsObject}
  \cup {Fin(n) : n \in {0 - 15, 0, 1, 1500}}
  \cup {Str(s) : s \in Strings(MaxLen)}

\* ======================================================= admin dashboard
\* src/src/pages/AdminDashboard.jsx with fetchSummaryByDate, listExpenses and
\* fetchCogsSummary of the sale provider.  A date string is [form, day]:
\* "ymd" is "2024-01-0<day>", "ymdT" is "2024-01-0<day>T21:30:00Z", "none" is
\* a date that is missing or empty.  A date of ten characters is written as
\* its day, the empty string as 0.

\* dates of the rows of sales
SaleDates ==
  { [form |-> "none", day |-> 0], [form |-> "ymd", day |-> 1],
    [form |-> "ymd", day |-> 2] }

\* dates of the rows of expenses
ExpenseDates ==
  { [form |-> "none", day |-> 0], [form |-> "ymd", day |-> 1],
    [form |-> "ymdT", day |-> 2] }

\* rows of the answer of /retail-sales/summary/by-date: gross above paid
\* without and with a balance of its own, paid above gross
SaleAnswers ==
  { [date |-> d, gross |-> Fin(10000), paid |-> Fin(7000), balance |-> JsUndefined,
     count |-> Fin(1)] : d \in SaleDates }
  \cup
  { [date |-> d, gross |-> Fin(10000), paid |-> Fin(7000), balance |-> Fin(500),
     count |-> Fin(1)] : d \in SaleDates }
  \cup
  { [date |-> d, gross |-> Fin(7000), paid |-> Fin(10000), balance |-> JsUndefined,
     count |-> Fin(1)] : d \in SaleDates }

\* rows of the answer of /expenses
ExpenseAnswers ==
  { [date |-> d, category |-> "Rent", amount |-> Fin(500)] : d \in ExpenseDates }
  \cup
  { [date |-> d, category |-> "Cogs", amount |-> Fin(300)] : d \in ExpenseDates }

\* totals of the answer of /retail-sales/summary/cogs, or an answer without
CogsAnswers ==
  { [totals |-> FALSE, sales |-> JsUndefined, cogs |-> JsUndefined],
    [totals |-> TRUE, sales |-> Fin(9000), cogs |-> Fin(4000)] }

\* the sequences of at most n elements of S
RECURSIVE SeqsUpTo(_, _)
SeqsUpTo(S, n) ==
  IF n = 0 THEN {<<>>}
  ELSE LET shorter == SeqsUpTo(S, n - 1) IN
       shorter \cup {Append(q, x) : q \in {y \in shorter : Len(y) = n - 1}, x \in S}

\* what the backend answers to one load
BackendAnswers ==
  UNION { { [sales |-> sa, expenses |-> ex, cogs |-> co] :
              ex \in SeqsUpTo(ExpenseAnswers, MaxRecords - Len(sa)),
              co \in CogsAnswers } :
          sa \in SeqsUpTo(SaleAnswers, MaxRecords) }

\* no answer of the backend
NoAnswer ==
  [sales |-> <<>>, expenses |-> <<>>,
   cogs |-> [totals |-> FALSE, sales |-> JsUndefined, cogs |-> JsUndefined]]

\* getAuthToken of the sale provider: the token the user provider holds,
\* else getDefaultToken() (localStorage "token"; nothing in the client
\* writes "access_token")
getAuthToken(t) == IF token[t] # 0 THEN token[t] ELSE storage[TOKEN_KEY]

\* a || b of two numbers
OrElse(a, b) == IF a # 0 THEN a ELSE b

\* date.slice(0, 10) of the flexible date of a row, "" if there is none
slice10(d) == IF d.form = "none" THEN 0 ELSE d.day

\* the row fetchSummaryByDate makes of a row of the answer (the aliases of
\* the fields are absent from the answers explored)
summaryRow(r) ==
  LET gross == OrElse(toNum(r.gross), 0)
      paid == OrElse(toNum(r.paid), 0)
      balanceRaw == IF r.balance.type \in {"null", "undefined"}
                    THEN Fin(gross - paid) ELSE r.balance
  IN  [date |-> slice10(r.date), gross |-> gross, paid |-> paid,
       balance |-> toNum(balanceRaw),
       count |-> IF r.count.type = "number" THEN r.count.n ELSE 0]

\* fetchSummaryByDate: [] without token, else the rows of the answer
fetchSummaryByDate(t) ==
  IF getAuthToken(t) = 0 THEN <<>>
  ELSE [i \in 1..Len(backend.sales) |-> summaryRow(backend.sales[i])]

\* listExpenses: [] without token, else the rows of the answer as they are
expenseRows(t) == IF getAuthToken(t) = 0 THEN <<>> ELSE backend.expenses

\* fetchCogsSummary followed by the setCogsSummary of load
fetchCogsSummary(t) ==
  IF getAuthToken(t) = 0 THEN [sales |-> 0, cogs |-> 0]
  ELSE [sales |-> num(Fin(toNum(backend.cogs.sales))),
        cogs |-> num(Fin(toNum(backend.cogs.cogs)))]

\* ---------------------------------------------- derived values of a render

pickDate(r) == r.date
pickGross(r) == num(Fin(r.gross))
pickPaid(r) == num(Fin(r.paid))
pickBalance(r) == num(Fin(r.balance))
pickCount(r) == num(Fin(r.count))

toLowerCase(c) == IF c \in {"COGS", "Cogs", "cogs"} THEN "cogs" ELSE c

\* an isCogsExp that compares the category as it is written
isCogsExp_caseSensitive(e) == e.category = "cogs"

isCogsExp(e) == toLowerCase(e.category) = "cogs"

RECURSIVE SumAmounts(_, _)
\* reduce((a, e) => a + num(e.amount), 0) over the rows of es that are in keep
SumAmounts(es, keep) ==
  IF es = <<>> THEN 0
  ELSE (IF keep[1] THEN num(Head(es).amount) ELSE 0)
       + SumAmounts(Tail(es), Tail(keep))

opExTotal == SumAmounts(expenses, [i \in 1..Len(expenses) |-> ~isCogsExp(expenses[i])])

cogsPurchasesTotal ==
  SumAmounts(expenses, [i \in 1..Len(expenses) |-> isCogsExp(expenses[i])])

\* ymdInKE(new Date(raw)) for a raw that does not begin with a date:
\* new Date("") is an invalid date and formatToParts throws a RangeError
DateThrows(e) == e.date.form = "none"

\* /^\d{4}-\d{2}-\d{2}/.exec(raw)?.[0] of a row whose date is there
isoOf(e) == e.date.day

\* the render throws in opExByDate or in cogsByDate: each row without a date
\* is parsed by the one that does not skip it
RenderThrows == \E i \in 1..Len(expenses) : DateThrows(expenses[i])

\* opExByDate and cogsByDate, for a render that does not throw: the object m
\* as a function of its keys
byDate(cogs) ==
  LET mine == {i \in 1..Len(expenses) : isCogsExp(expenses[i]) = cogs} IN
  [d \in {isoOf(expenses[i]) : i \in mine} |->
     SumAmounts(expenses,
                [i \in 1..Len(expenses) |-> i \in mine /\ isoOf(expenses[i]) = d])]

opExByDate == byDate(FALSE)
cogsByDate == byDate(TRUE)

ZeroRow(d) ==
  [date |-> d, gross |-> 0, paid |-> 0, balance |-> 0, count |-> 0,
   opEx |-> 0, cogsPurch |-> 0]

RECURSIVE seedFromSales(_, _)
\* "seed from sales": map.set for every row with a date, a later row of the
\* same date replaces the earlier one
seedFromSales(map, rows) ==
  IF rows = <<>> THEN map
  ELSE LET r == Head(rows)
           d == pickDate(r)
           row == [date |-> d, gross |-> pickGross(r), paid |-> pickPaid(r),
                   balance |-> pickBalance(r), count |-> pickCount(r),
                   opEx |-> 0, cogsPurch |-> 0]
       IN  IF d = 0 THEN seedFromSales(map, Tail(rows))
           ELSE seedFromSales([k \in DOMAIN map \cup {d} |->
                                 IF k = d THEN row ELSE map[k]], Tail(rows))

\* "add OpEx" and "add COGS purchases"
addByDate(map, m, cogs) ==
  [d \in DOMAIN map \cup DOMAIN m |->
     LET row == IF d \in DOMAIN map THEN map[d] ELSE ZeroRow(d) IN
     IF d \notin DOMAIN m THEN row
     ELSE IF cogs THEN [row EXCEPT !.cogsPurch = @ + m[d]]
          ELSE [row EXCEPT !.opEx = @ + m[d]]]

RECURSIVE sortByDate(_)
\* Array.from(map.values()).sort((a, b) => a.date.localeCompare(b.date))
sortByDate(map) ==
  IF DOMAIN map = {} THEN <<>>
  ELSE LET first == CHOOSE d \in DOMAIN map : \A k \in DOMAIN map : d <= k IN
       <<map[first]>> \o sortByDate([k \in DOMAIN map \ {first} |-> map[k]])

dayRows ==
  sortByDate(addByDate(addByDate(seedFromSales(<<>>, salesSummary),
                                 opExByDate, FALSE),
                       cogsByDate, TRUE))

\* Net of a point of the chart, of a mobile card and of a row of the table
chartNet(r) == r.paid - (r.opEx + r.cogsPurch)
cardNet(r) == r.paid - (r.opEx + r.cogsPurch)
tableNet(r) == r.paid - (r.opEx + r.cogsPurch)

chartDailyArea ==
  [i \in 1..Len(dayRows) |->
     [date |-> dayRows[i].date, Paid |-> dayRows[i].paid,
      Expenses |-> dayRows[i].opEx, Net |-> chartNet(dayRows[i])]]

RECURSIVE foldSales(_, _)
\* the loop of totalSales
foldSales(acc, rows) ==
  IF rows = <<>> THEN acc
  ELSE foldSales([gross |-> acc.gross + pickGross(Head(rows)),
                  paid |-> acc.paid + pickPaid(Head(rows)),
                  balance |-> acc.balance + pickBalance(Head(rows)),
                  count |-> acc.count + pickCount(Head(rows))], Tail(rows))

totalSales ==
  foldSales([gross |-> 0, paid |-> 0, balance |-> 0, count |-> 0], salesSummary)

net == totalSales.paid - (opExTotal + cogsPurchasesTotal)

cogsTotals == [sales |-> num(Fin(cogsSummary.sales)), cogs |-> num(Fin(cogsSummary.cogs))]

\* a netProfit that also takes the COGS purchases off
netProfit_lessPurchases ==
  (cogsTotals.sales - cogsTotals.cogs) - (opExTotal + cogsPurchasesTotal)

netProfit == (cogsTotals.sales - cogsTotals.cogs) - opExTotal

\* ------------------------------------------------------------- trends
\* a trend is null, or delta with pct; pct is null, or the fraction
\* num / den of (delta / prev) * 100
NoTrend == [isNull |-> TRUE, delta |-> 0, pctNull |-> TRUE, num |-> 0, den |-> 1]

trendOf(prev, curr, hasPct) ==
  [isNull |-> FALSE, delta |-> curr - prev, pctNull |-> ~hasPct,
   num |-> IF hasPct THEN (curr - prev) * 100 ELSE 0,
   den |-> IF hasPct THEN prev ELSE 1]

\* trendFrom: lastTwo = dayRows.slice(-2)
trendFrom(rows, key) ==
  IF Len(rows) < 2 THEN NoTrend
  ELSE LET prev == OrElse(rows[Len(rows) - 1][key], 0)
           curr == OrElse(rows[Len(rows)][key], 0)
       IN  trendOf(prev, curr, prev > 0)

\* a trendNet that gives a percentage for every baseline but 0
trendNet_nonZero(rows) ==
  IF Len(rows) < 2 THEN NoTrend
  ELSE LET a == rows[Len(rows) - 1]
           b == rows[Len(rows)]
           prevNet == a.paid - (a.opEx + a.cogsPurch)
           currNet == b.paid - (b.opEx + b.cogsPurch)
       IN  trendOf(prevNet, currNet, prevNet # 0)

trendNet(rows) ==
  IF Len(rows) < 2 THEN NoTrend
  ELSE LET a == rows[Len(rows) - 1]
           b == rows[Len(rows)]
           prevNet == OrElse(a.paid, 0) - (OrElse(a.opEx, 0) + OrElse(a.cogsPurch, 0))
           currNet == OrElse(b.paid, 0) - (OrElse(b.opEx, 0) + OrElse(b.cogsPurch, 0))
       IN  trendOf(prevNet, currNet, prevNet > 0)

\* ------------------------------------------------------- initial states
\* what localStorage holds when the first page is opened: nothing, or a
\* token (without exp, or expiring during the run) whose auth_user entry is
\* missing or does not parse (initialState then starts with user = null); a
\* stored token with its user is reached by login
InitStorages(c) ==
  {[token |-> 0, auth_user |-> 0]} \cup
  {[token |-> k, auth_user |-> 0] : k \in c.tokens \cap {1, 3}}

SessionInit(configs) ==
  /\ now = 3
  /\ \E c \in configs : \E s \in InitStorages(c) :
       LET tok == s[TOKEN_KEY]
           exp == decodeJwtExp(tok)
           tm == [tok |-> tok, fireAt |-> 3 + TimerDelay(exp.ms - 3 + SkewUnits)]
           timed == tok # 0 /\ ~Falsy(exp) /\ exp.ms - 3 > 0
           At(t, v, none) == IF t \in c.tabs THEN v ELSE none
       IN  /\ cfg = c
           /\ storage = s
           /\ token = [t \in Tabs |-> At(t, tok, 0)]
           /\ user = [t \in Tabs |-> 0]
           /\ timers = [t \in Tabs |-> IF timed /\ t \in c.tabs THEN {tm} ELSE {}]
           /\ logoutTimerRef = [t \in Tabs |-> IF timed /\ t \in c.tabs THEN tm ELSE NoTimer]
           /\ fetchTok = [t \in Tabs |-> At(t, tok, 0)]
           /\ bootProfile = [t \in Tabs |-> IF tok # 0 /\ t \in c.tabs
                                            THEN "fetching" ELSE "none"]
  /\ pendingApproval = [t \in Tabs |-> NoPending]
  /\ loginSent = [t \in Tabs |-> FALSE]
  /\ logoutSent = [t \in Tabs |-> FALSE]
  /\ storageEvents = [t \in Tabs |-> {}]
  /\ emitted = {}
  /\ ret = NoRet
  /\ deviceRequests = [t \in Tabs |-> {}]
  /\ deviceSummary = [t \in Tabs |-> NoSummary]
  /\ revoked = [t \in Tabs |-> FALSE]

\* the dashboard as useState leaves it
DashboardInit ==
  /\ salesSummary = <<>>
  /\ expenses = <<>>
  /\ cogsSummary = [sales |-> 0, cogs |-> 0]

\* nothing has been handed to a normaliser
NoAmount == JsUndefined
Results(a, b, c) == [num |-> a, toNum |-> b, toNumCashier |-> c]
NotNormalised == [stage |-> 0, first |-> Results(0, 0, 0), again |-> Results(0, 0, 0)]

\* ---------------------------------------------------------- field pickers
\* pickNum, getGross, getPaid and getDue of the cashier page, the flexible
\* fields of fetchSummaryByDate and the pickers of the dashboard, applied to
\* a record of the backend: a function from its keys to their values, a key
\* that is absent having the value undefined.

\* the keys of the records explored, each with the amount it has when it is
\* a number other than 0
PickKeys ==
  [gross |-> 1000, total |-> 2000, total_amount |-> 3000, paid |-> 400,
   paid_amount |-> 500, balance |-> 60, balance_due |-> 70]

PickRecords ==
  [DOMAIN PickKeys -> {"absent", "null", "zero", "amount"}]

\* obj[k]
Get(obj, k) ==
  IF k \notin DOMAIN obj \/ obj[k] = "absent" THEN JsUndefined
  ELSE IF obj[k] = "null" THEN JsNull
  ELSE IF obj[k] = "zero" THEN Fin(0)
  ELSE Fin(PickKeys[k])

Nullish(v) == v.type \in {"null", "undefined"}

RECURSIVE Coalesce(_, _, _)
\* obj[k1] ?? obj[k2] ?? ... ?? last
Coalesce(obj, keys, last) ==
  IF keys = <<>> THEN last
  ELSE IF ~Nullish(Get(obj, Head(keys))) THEN Get(obj, Head(keys))
  ELSE Coalesce(obj, Tail(keys), last)

RECURSIVE FirstTruthy(_, _)
\* toNum(obj[k1]) || toNum(obj[k2]) || ... || 0
FirstTruthy(obj, keys) ==
  IF keys = <<>> THEN 0
  ELSE IF toNum(Get(obj, Head(keys))) # 0 THEN toNum(Get(obj, Head(keys)))
  ELSE FirstTruthy(obj, Tail(keys))

\* the flexible fields of fetchSummaryByDate
summaryGross(r) ==
  FirstTruthy(r, <<"gross", "total", "total_amount", "amount_total", "revenue">>)
summaryPaid(r) ==
  FirstTruthy(r, <<"paid", "paid_amount", "amount_paid", "total_paid">>)
summaryBalance(r) ==
  toNum(Coalesce(r, <<"balance", "balance_due", "amount_due", "outstanding">>,
                 Fin(summaryGross(r) - summaryPaid(r))))

\* the pickers of the dashboard, of a row as the backend answers it
dashboardGross(r) == num(Coalesce(r, <<"gross", "total", "total_amount">>, JsUndefined))
dashboardPaid(r) == num(Coalesce(r, <<"paid", "paid_amount">>, JsUndefined))
dashboardBalance(r) == num(Coalesce(r, <<"balance", "balance_due">>, JsUndefined))

GROSS_KEYS ==
  <<"total_amount", "gross_total", "subtotal", "amount", "total", "amount_total">>
PAID_KEYS == <<"paid_amount", "amount_paid", "paid", "payments_total">>
DUE_KEYS == <<"balance_due", "due", "outstanding", "remaining">>

RECURSIVE pickNum(_, _, _)
\* pickNum of the cashier page; Number(obj[k]) of the values explored is
\* finite, d is a value
pickNum(obj, keys, d) ==
  IF keys = <<>> THEN d
  ELSE IF ~Nullish(Get(obj, Head(keys))) /\ Get(obj, Head(keys)).type = "number"
       THEN Get(obj, Head(keys))
       ELSE pickNum(obj, Tail(keys), d)

getGross(sale) == pickNum(sale, GROSS_KEYS, Fin(0)).n
getPaid(sale) == pickNum(sale, PAID_KEYS, Fin(0)).n
getDue(sale) ==
  LET v == pickNum(sale, DUE_KEYS, JsNaN) IN
  IF v.type = "number" THEN v.n
  ELSE IF getGross(sale) - getPaid(sale) > 0 THEN getGross(sale) - getPaid(sale)
  ELSE 0

Picked(g, p, b) == [gross |-> g, paid |-> p, balance |-> b]

NoPick ==
  [stage |-> 0, record |-> [k \in DOMAIN PickKeys |-> "absent"],
   summary |-> Picked(0, 0, 0), dashboard |-> Picked(0, 0, 0),
   cashier |-> Picked(0, 0, 0)]

\* ---------------------------------------------------- the other pages
\* ------------------------------------------------- overlapping loads
\* load, runWithLoadingToast and the handlers of the toolbar of
\* AdminDashboard.jsx, one await at a time.  A day is 1 (yesterday) or 2
\* (today); a range is [date_from, date_to].

\* loads issued in a run
MaxLoads == 2

yesterdayKE == 1
todayKE == 2
Days == {yesterdayKE, todayKE}
RangeOf(a, b) == [date_from |-> a, date_to |-> b]
\* last7DaysKE: from the earliest day to today
last7DaysKE == RangeOf(yesterdayKE, todayKE)
Ranges == {RangeOf(a, b) : a \in Days, b \in Days}

\* the four fetches of Promise.all
Fetches == {"summary", "expenses", "cartons", "cogs"}

DaysOf(range) == {d \in Days : range.date_from <= d /\ d <= range.date_to}

\* what the backend answers for a range: a row of sales and a record of
\* expenses for each of its days, the totals of the items sold in it
AnswersOf(range) ==
  LET n == Cardinality(DaysOf(range))
      day(i) == range.date_from + i - 1
  IN  [sales |-> [i \in 1..n |->
                   [date |-> [form |-> "ymd", day |-> day(i)], gross |-> Fin(10000),
                    paid |-> Fin(7000), balance |-> JsUndefined, count |-> Fin(1)]],
       expenses |-> [i \in 1..n |->
                      [date |-> [form |-> IF day(i) = 1 THEN "ymd" ELSE "ymdT",
                                 day |-> day(i)],
                       category |-> "Rent", amount |-> Fin(500)]],
       cogs |-> IF n = 0
                THEN [totals |-> FALSE, sales |-> JsUndefined, cogs |-> JsUndefined]
                ELSE [totals |-> TRUE, sales |-> Fin(9000 * n), cogs |-> Fin(4000 * n)]]

\* fetchCartonsBySize: the totals of the cartons of a range
fetchCartonsBySize(range) ==
  [cartons |-> 12 * Cardinality(DaysOf(range)),
   revenue |-> 10000 * Cardinality(DaysOf(range))]

\* a load in flight: its range, the fetches that have resolved, and whether
\* it is pending, has set its results or has thrown; before is the set of
\* loads that were pending when it was issued
Load(range, before) ==
  [range |-> range, ok |-> {}, state |-> "pending", before |-> before]

\* the dashboard after its first render, before the mount effect; from is
\* the load each displayed data set was set by (0: none), toast what the
\* loading toast shows, edited whether a date input was changed since the
\* last load was issued
RefreshInit ==
  [mounted |-> FALSE, filters |-> RangeOf(todayKE, todayKE), loading |-> FALSE,
   loads |-> <<>>, cartonsSummary |-> [cartons |-> 0, revenue |-> 0],
   from |-> [f \in Fetches |-> 0], loadingToastRef |-> FALSE, toast |-> "none",
   edited |-> FALSE]

\* ------------------------------------------------- the cashier's net
\* totals, netSales, loadExpensesTotals and loadCogsPurchasesTotals of
\* CashierSale.jsx.

\* a sale as the backend lists it
CashierSales ==
  { <<>>,
    <<[k \in DOMAIN PickKeys |-> IF k \in {"total_amount", "paid_amount"}
                                 THEN "amount" ELSE "absent"]>> }

\* the answer of GET /cogs: the purchases of the range.  A purchase posted
\* to /cogs is what the dashboard reads back, after its reload, as a record
\* of /expenses of category COGS (saveCogsPurchase): the purchases listed are
\* those records
listedCogs == SelectSeq(backend.expenses, isCogsExp)

\* the page before its loaders have run; by names what set each total
CashierInit ==
  [sales |-> <<>>, expensesTotal |-> 0, cogsPurchasesTotal |-> 0,
   expensesBy |-> "none", cogsBy |-> "none"]

RECURSIVE totalsOf(_)
\* totals: gross, paid and due of the displayed sales
totalsOf(sales) ==
  IF sales = <<>> THEN [gross |-> 0, paid |-> 0, due |-> 0]
  ELSE LET rest == totalsOf(Tail(sales)) IN
       [gross |-> getGross(Head(sales)) + rest.gross,
        paid |-> getPaid(Head(sales)) + rest.paid,
        due |-> getDue(Head(sales)) + rest.due]

totals == totalsOf(cashier.sales)

netSales == totals.paid - (cashier.expensesTotal + cashier.cogsPurchasesTotal)

RECURSIVE reduceAmounts(_)
\* arr.reduce((a, e) => a + toNum(e?.amount), 0)
reduceAmounts(arr) ==
  IF arr = <<>> THEN 0
  ELSE toNumCashier(Head(arr).amount) + reduceAmounts(Tail(arr))

\* guess of loadCogsPurchasesTotals: the totals fetchCogsSummary returns
\* have the keys sales, cogs, gross, gm and breakdown, and its result has no
\* purchases_total: the three values read are undefined
guess ==
  OrElse(toNumCashier(JsUndefined),
         OrElse(toNumCashier(JsUndefined), OrElse(toNumCashier(JsUndefined), 0)))
\* ------------------------------------------------- the /admin/users route
\* RequireAdmin, UsersRoute and roleFlags of App.jsx, the derived helpers of
\* the user provider and the first lines of AdminUsers.jsx.

\* the profiles of the visitors: no user, or a user with a role, an admin
\* level and the flags roleFlags reads
NoUser == [role |-> "none", admin_level |-> "none", is_admin |-> FALSE,
           is_overall_admin |-> FALSE]
Profiles ==
  [role : {"Admin", "cashier", "superadmin", ""}, admin_level : {"Overall", "normal"},
   is_admin : BOOLEAN, is_overall_admin : BOOLEAN]

\* what the provider holds when the route is rendered
Visitors ==
  [loading : BOOLEAN, token : BOOLEAN, user : Profiles \cup {NoUser}]

\* (s || "").toLowerCase() of the roles and levels explored
lower(s) ==
  IF s = "none" THEN ""
  ELSE IF s = "Admin" THEN "admin"
  ELSE IF s = "Overall" THEN "overall"
  ELSE s

\* the derived helpers of the user provider
isLoggedIn(v) == v.token /\ v.user # NoUser
isAdmin(v) == lower(v.user.role) = "admin"
isOverallAdmin(v) == isAdmin(v) /\ lower(v.user.admin_level) = "overall"

\* normalizeRole: the profiles explored have no role_slug
normalizeRole(u) == lower(u.role)

roleFlags(u, ctxOverallAdmin) ==
  [isOverall |-> \/ ctxOverallAdmin
                 \/ u.is_overall_admin
                 \/ normalizeRole(u) \in {"overall_admin", "overall-admin", "superadmin"},
   isAdmin |-> u.is_admin \/ normalizeRole(u) = "admin",
   isCashier |-> normalizeRole(u) = "cashier"]

\* what is rendered: the spinner, the redirect to /login, the denied page,
\* the panel "Overall admin only", or the users page
View(page, readOnly) == [page |-> page, readOnly |-> readOnly]

\* AdminUsers takes no props: readOnly is not read
AdminUsers(v, readOnly) ==
  IF ~isOverallAdmin(v) THEN View("overall admin only", FALSE)
  ELSE View("users", FALSE)

UsersRoute(v) ==
  AdminUsers(v, ~roleFlags(v.user, isOverallAdmin(v)).isOverall)

RequireAdmin(v) ==
  LET flags == roleFlags(v.user, isOverallAdmin(v)) IN
  IF v.loading THEN View("spinner", FALSE)
  ELSE IF ~isLoggedIn(v) THEN View("login", FALSE)
  ELSE IF ~(flags.isOverall \/ flags.isAdmin) THEN View("denied", FALSE)
  ELSE UsersRoute(v)

NoRoute ==
  [visitor |-> [loading |-> FALSE, token |-> FALSE, user |-> NoUser],
   view |-> View("none", FALSE)]

\* the other pages are not open and the server has revoked nothing
OtherPagesInit ==
  /\ pick = NoPick
  /\ refresh = RefreshInit
  /\ cashier = CashierInit
  /\ route = NoRoute
  /\ server = {}

InitIn(configs) ==
  /\ SessionInit(configs)
  /\ backend = NoAnswer
  /\ DashboardInit
  /\ amountIn = NoAmount
  /\ amountOut = NotNormalised
  /\ OtherPagesInit

Init == InitIn(Configs)

\* the page of tab t is loaded again (reload, or the redirect to LOGIN_PATH
\* that clearAuth asks for): its requests in flight are abandoned
PageLoad(t) ==
  LET W == pageLoad(World, t) IN
  /\ Commit(W)
  /\ fetchTok' = [fetchTok EXCEPT ![t] = bootFetch(World)]
  /\ loginSent' = [loginSent EXCEPT ![t] = FALSE]
  /\ logoutSent' = [logoutSent EXCEPT ![t] = FALSE]
  /\ pendingApproval' = [pendingApproval EXCEPT ![t] = NoPending]
  /\ bootProfile' = [bootProfile EXCEPT ![t] =
                       IF bootFetch(World) # 0 /\ W.token[t] # 0
                       THEN "fetching" ELSE "none"]
  /\ ret' = Ret(t, "load", "none", Resp(0, storage[TOKEN_KEY], 0, FALSE, NoBody))
  /\ deviceRequests' = [deviceRequests EXCEPT ![t] = {}]
  /\ deviceSummary' = [deviceSummary EXCEPT ![t] = NoSummary]
  /\ UNCHANGED <<cfg, now>>

\* ----------------------------------------------------------------- time

Tick ==
  /\ now < MaxTime
  /\ now' = now + 1
  /\ emitted' = {}
  /\ ret' = NoRet
  /\ UNCHANGED <<cfg, storage, token, user, pendingApproval, timers,
                 logoutTimerRef, loginSent, logoutSent, fetchTok, storageEvents,
                 bootProfile>>

\* the timeout scheduled by scheduleAutoLogout or by the mount effect runs
TimerFire(t, tm) ==
  /\ tm \in timers[t]
  /\ now >= tm.fireAt
  /\ LET W == clearAuth([World EXCEPT !.timers[t] = @ \ {tm}], t) IN
       /\ Commit(W)
       /\ bootProfile' = BootProfileAfter(W, t, bootProfile[t])
  /\ ret' = Ret(t, "timer", "none", Resp(0, tm.tok, 0, FALSE, NoBody))
  /\ UNCHANGED <<cfg, now, pendingApproval, loginSent, logoutSent, fetchTok>>

\* ---------------------------------------------------------------- login

\* answers to POST /login: status 200 with a body that has or lacks token and
\* user, an error status, or no answer at all (status 0).  device says that
\* the error body carries error = "DEVICE_PENDING" or a message that contains
\* "device"
LoginResponses ==
  {Resp(200, k, u, FALSE, NoBody) : k \in cfg.tokens \cup {0}, u \in cfg.users \cup {0}}
  \cup {Resp(st, 0, 0, FALSE, NoBody) : st \in {0, 401, 403, 422}}
  \cup {Resp(st, 0, 0, TRUE, b) : st \in {401, 403, 422}, b \in cfg.bodies}

\* which return statement of login an answer leads to
loginOutcome(r) ==
  IF r.status = 200
  THEN IF r.token # 0 /\ r.user # 0 THEN "ok" ELSE "error"
  ELSE IF r.status = 403 /\ r.device THEN "pending" ELSE "error"

\* a pending value that takes the user agent from the wrong field
pendingValue_agentFromIp(body) ==
  [present |-> TRUE, ip |-> body.ip, user_agent |-> body.ip,
   request_id |-> body.request_id]

\* the value login stores for a device-restriction answer
pendingValue(body) ==
  [present |-> TRUE, ip |-> body.ip, user_agent |-> body.user_agent,
   request_id |-> body.request_id]

\* login up to its await: SET_PENDING_APPROVAL null, then the request is sent
LoginStart(t) ==
  /\ ~loginSent[t]
  /\ loginSent' = [loginSent EXCEPT ![t] = TRUE]
  /\ pendingApproval' = [pendingApproval EXCEPT ![t] = NoPending]
  /\ emitted' = {}
  /\ ret' = NoRet
  /\ UNCHANGED <<cfg, now, storage, token, user, timers, logoutTimerRef, logoutSent,
                 fetchTok, storageEvents, bootProfile>>

\* login from the answer on
LoginFinish(t, r) ==
  /\ loginSent[t]
  /\ loginSent' = [loginSent EXCEPT ![t] = FALSE]
  /\ LET out == loginOutcome(r)
         W == IF r.status = 200
              THEN IF out = "ok" THEN persistAuth(World, t, r.token, r.user)
                   ELSE World
              ELSE requestCatch(World, t, r.status)
     IN  /\ Commit(W)
         /\ bootProfile' = BootProfileAfter(W, t, bootProfile[t])
         /\ pendingApproval' =
              IF out = "pending"
              THEN [pendingApproval EXCEPT ![t] = pendingValue(r.body)]
              ELSE pendingApproval
         /\ ret' = Ret(t, "login", out, r)
  /\ UNCHANGED <<cfg, now, logoutSent, fetchTok>>

\* --------------------------------------------------------------- logout

\* a logout whose clearAuth sits inside the try, after the await
logoutAfterAwait_inTry(W, t, status) ==
  IF status = 200 THEN clearAuth(W, t) ELSE requestCatch(W, t, status)

\* logout after "await request(/logout)": the catch swallows what request
\* throws, then clearAuth runs
logoutAfterAwait(W, t, status) ==
  clearAuth(IF status = 200 THEN W ELSE requestCatch(W, t, status), t)

\* logout up to its await; without a token no request is made and the rest
\* of logout runs at once
Logout(t) ==
  /\ ~logoutSent[t]
  /\ IF getToken(t) # 0
     THEN /\ logoutSent' = [logoutSent EXCEPT ![t] = TRUE]
          /\ emitted' = {}
          /\ ret' = NoRet
          /\ UNCHANGED <<storage, token, user, timers, logoutTimerRef,
                         storageEvents, bootProfile>>
     ELSE /\ LET W == clearAuth(World, t) IN
               /\ Commit(W)
               /\ bootProfile' = BootProfileAfter(W, t, bootProfile[t])
          /\ ret' = Ret(t, "logout", "true", NoResp)
          /\ UNCHANGED logoutSent
  /\ UNCHANGED <<cfg, now, pendingApproval, loginSent, fetchTok>>

\* logout from the answer of POST /logout on (status 0: no answer)
LogoutFinish(t, status) ==
  /\ logoutSent[t]
  /\ logoutSent' = [logoutSent EXCEPT ![t] = FALSE]
  /\ LET W == logoutAfterAwait(World, t, status) IN
       /\ Commit(W)
       /\ bootProfile' = BootProfileAfter(W, t, bootProfile[t])
  /\ ret' = Ret(t, "logout", "true", Resp(status, 0, 0, FALSE, NoBody))
  /\ UNCHANGED <<cfg, now, pendingApproval, loginSent, fetchTok>>

\* ----------------------------------------------------- fetchCurrentUser

\* the heartbeat or a visibility change calls fetchCurrentUser (the effect is
\* only installed while state.token is set); the request carries getToken()
FetchStart(t) ==
  /\ token[t] # 0
  /\ fetchTok[t] = 0
  /\ getToken(t) # 0
  /\ fetchTok' = [fetchTok EXCEPT ![t] = getToken(t)]
  /\ emitted' = {}
  /\ ret' = NoRet
  /\ UNCHANGED <<cfg, now, storage, token, user, pendingApproval, timers,
                 logoutTimerRef, loginSent, logoutSent, storageEvents,
                 bootProfile>>

\* fetchCurrentUser from the answer of GET /current-user on
FetchFinish(t, status, u) ==
  /\ fetchTok[t] # 0
  /\ fetchTok' = [fetchTok EXCEPT ![t] = 0]
  /\ LET W == IF status = 200 THEN persistAuth(World, t, fetchTok[t], u)
              ELSE requestCatch(World, t, status)
     IN  /\ Commit(W)
         /\ bootProfile' = BootProfileAfter(W, t,
                             IF status # 200 /\ bootProfile[t] = "fetching"
                             THEN "failed" ELSE bootProfile[t])
  /\ ret' = Ret(t, "fetchCurrentUser", IF status = 200 THEN "user" ELSE "throw",
                Resp(status, fetchTok[t], IF status = 200 THEN u ELSE 0, FALSE, NoBody))
  /\ UNCHANGED <<cfg, now, pendingApproval, loginSent, logoutSent>>

\* ------------------------------------------------------------ cross-tab

\* an onStorage that tests e.newValue instead of !e.newValue
onStorage_onSet(W, t, v) == IF v # 0 THEN clearAuth(W, t) ELSE W

\* onStorage for an event with key TOKEN_KEY and newValue v
onStorage(W, t, v) == IF v = 0 THEN clearAuth(W, t) ELSE W

\* tab t handles a pending "storage" event
StorageEvent(t, v) ==
  /\ v \in storageEvents[t]
  /\ LET W == onStorage([World EXCEPT !.sev[t] = @ \ {v}], t, v) IN
       /\ Commit(W)
       /\ bootProfile' = BootProfileAfter(W, t, bootProfile[t])
  /\ ret' = Ret(t, "storage", "none", Resp(0, v, 0, FALSE, NoBody))
  /\ UNCHANGED <<cfg, now, pendingApproval, loginSent, logoutSent, fetchTok>>

\* ------------------------------------------------ history of revocation

\* revoked after the step: set for the tab whose call, carrying a token, was
\* answered 401 (the catch of request has then cleared the session), reset
\* for every tab by a login that succeeded
RevokedAfter ==
  [t \in Tabs |->
     IF ret'.tab = t /\ ret'.in.status = 401 /\ ret'.in.token # 0
        /\ ret'.op # "login"
     THEN TRUE
     ELSE IF ret'.op = "login" /\ ret'.kind = "ok" THEN FALSE
     ELSE revoked[t]]

\* the steps above leave the device lists alone (the page load empties them)
Track == revoked' = RevokedAfter /\ UNCHANGED pageVars
Kept == UNCHANGED <<deviceRequests, deviceSummary>>
\* the history is kept in the run of the back office only
Untracked == UNCHANGED <<revoked, pageVars>>

\* ------------------------------------------------ device approval (admin)
\* Each call is made and answered within one step: the request carries the
\* getToken() of the tab, st is the status of the answer (0: no answer).

\* a call that throws before any request is made
Refused(t, op) ==
  /\ emitted' = {}
  /\ ret' = Ret(t, op, "invalid", NoResp)
  /\ UNCHANGED <<cfg, now, storage, token, user, pendingApproval, timers,
                 logoutTimerRef, loginSent, logoutSent, fetchTok, storageEvents,
                 bootProfile, deviceRequests, deviceSummary, revoked, pageVars>>

\* "await request(path, { token, ... })" of tab t answered with status st,
\* for a call about request id (0: none) whose answer lists the ids in list
Requested(t, op, id, st, list) ==
  LET W == IF st = 200 THEN World ELSE requestCatch(World, t, st) IN
  /\ Commit(W)
  /\ bootProfile' = BootProfileAfter(W, t, bootProfile[t])
  /\ ret' = Ret(t, op, IF st = 200 THEN "res" ELSE "throw",
                [Resp(st, getToken(t), 0, FALSE,
                      [ip |-> "", user_agent |-> "", request_id |-> id])
                   EXCEPT !.list = list])
  /\ revoked' = RevokedAfter
  /\ UNCHANGED <<cfg, now, loginSent, logoutSent, fetchTok, pageVars>>

\* approveByCode({ request_id, code }), approveByCode(request_id, code) or
\* approveByCode(code): id = 0 stands for a request id that is not given,
\* which is then taken from the pending approval of the tab
approveByCode(t, id, code, st) ==
  LET request_id == IF id # 0 THEN id ELSE pendingApproval[t].request_id IN
  IF request_id = 0 \/ ~code
  THEN Refused(t, "approveByCode")
  ELSE /\ Requested(t, "approveByCode", request_id, st, {})
       /\ UNCHANGED <<pendingApproval, deviceRequests, deviceSummary>>

approveDevice(t, request_id, st) ==
  IF request_id = 0
  THEN Refused(t, "approveDevice")
  ELSE /\ Requested(t, "approveDevice", request_id, st, {})
       /\ pendingApproval' =
            IF st = 200 /\ pendingApproval[t].request_id # 0
               /\ pendingApproval[t].request_id = request_id
            THEN [pendingApproval EXCEPT ![t] = NoPending]
            ELSE pendingApproval
       /\ UNCHANGED <<deviceRequests, deviceSummary>>

approvePending(t, st) ==
  IF pendingApproval[t].request_id = 0
  THEN Refused(t, "approvePending")
  ELSE approveDevice(t, pendingApproval[t].request_id, st)

\* the answer of GET /device-requests lists the ids in list
getDeviceRequests(t, st, list) ==
  /\ Requested(t, "getDeviceRequests", 0, st, list)
  /\ deviceRequests' =
       IF st = 200 THEN [deviceRequests EXCEPT ![t] = list] ELSE deviceRequests
  /\ UNCHANGED <<pendingApproval, deviceSummary>>

\* the answer of GET /device-summary counts n pending requests
getDeviceSummary(t, st, n) ==
  /\ Requested(t, "getDeviceSummary", 0, st, {})
  /\ deviceSummary' =
       IF st = 200
       THEN [deviceSummary EXCEPT ![t] = [present |-> TRUE, pending |-> n]]
       ELSE deviceSummary
  /\ UNCHANGED <<pendingApproval, deviceRequests>>

rejectDeviceRequest(t, request_id, st) ==
  /\ Requested(t, "rejectDeviceRequest", request_id, st, {})
  /\ UNCHANGED <<pendingApproval, deviceRequests, deviceSummary>>

clearNeedsApproval(t) ==
  /\ pendingApproval' = [pendingApproval EXCEPT ![t] = NoPending]
  /\ emitted' = {}
  /\ ret' = Ret(t, "clearNeedsApproval", "none", NoResp)
  /\ UNCHANGED <<cfg, now, storage, token, user, timers, logoutTimerRef,
                 loginSent, logoutSent, fetchTok, storageEvents, bootProfile,
                 deviceRequests, deviceSummary, revoked, pageVars>>

\* ------------------------------------------- calls of the other providers

\* a call of the other providers changes nothing of the session: what it
\* returned, for the request carrying tok that was answered st
Answered(t, op, kind, st, tok) ==
  /\ emitted' = {}
  /\ ret' = Ret(t, op, kind, Resp(st, tok, 0, FALSE, NoBody))
  /\ UNCHANGED <<cfg, now, storage, token, user, pendingApproval, timers,
                 logoutTimerRef, loginSent, logoutSent, fetchTok, storageEvents,
                 bootProfile, deviceRequests, deviceSummary, revoked, pageVars>>

\* listExpenses of the sale provider, through its own apiFetch: without a
\* token it returns [] and sends nothing; an answer that is not ok is thrown
\* to the caller
listExpenses(t, st) ==
  IF getAuthToken(t) = 0
  THEN Answered(t, "listExpenses", "empty", 0, 0)
  ELSE Answered(t, "listExpenses", IF st = 200 THEN "data" ELSE "throw",
                st, getAuthToken(t))

\* fetchStockBalances of the packaging provider, through the axios instance
\* whose request interceptor adds the token of localStorage; there is no
\* response interceptor
fetchStockBalances(t, st) ==
  Answered(t, "fetchStockBalances", IF st = 200 THEN "data" ELSE "throw",
           st, storage[TOKEN_KEY])

\* -------------------------------------------------------- specification

Statuses == {200, 401, 500, 0}

Inflight ==
  Cardinality({t \in Tabs : loginSent[t]})
  + Cardinality({t \in Tabs : logoutSent[t]})
  + Cardinality({t \in Tabs : fetchTok[t] # 0})

Next ==
  \/ Tick /\ Kept /\ Untracked
  \/ \E t \in cfg.tabs : PageLoad(t) /\ Untracked
  \/ \E t \in cfg.tabs : \E tm \in timers[t] : TimerFire(t, tm) /\ Kept /\ Untracked
  \/ \E t \in cfg.tabs : Inflight < MaxInflight /\ LoginStart(t) /\ Kept /\ Untracked
  \/ \E t \in cfg.tabs : \E r \in LoginResponses :
       LoginFinish(t, r) /\ Kept /\ Untracked
  \/ \E t \in cfg.tabs : Inflight < MaxInflight /\ Logout(t) /\ Kept /\ Untracked
  \/ \E t \in cfg.tabs : \E st \in Statuses :
       LogoutFinish(t, st) /\ Kept /\ Untracked
  \/ \E t \in cfg.tabs : Inflight < MaxInflight /\ FetchStart(t) /\ Kept /\ Untracked
  \/ \E t \in cfg.tabs : \E st \in Statuses : \E u \in cfg.users :
       FetchFinish(t, st, u) /\ Kept /\ Untracked
  \/ \E t \in cfg.tabs : \E v \in Tokens \cup {0} :
       StorageEvent(t, v) /\ Kept /\ Untracked

Spec == Init /\ [][Next]_vars

\* ------------------------------------- specification of the back office

InitAdmin == InitIn({AdminConfig})

\* what the admin endpoints answer to tab t: 200 only to a request that
\* carries a token (approve-by-code is also open to the user who waits for
\* the approval, with the code of the mail)
AdminStatuses(t) == IF getToken(t) # 0 THEN Statuses ELSE Statuses \ {200}

NextAdmin ==
  \/ \E t \in cfg.tabs : PageLoad(t) /\ Track
  \/ \E t \in cfg.tabs : Inflight < MaxInflight /\ LoginStart(t) /\ Kept /\ Track
  \/ \E t \in cfg.tabs : \E r \in LoginResponses :
       LoginFinish(t, r) /\ Kept /\ Track
  \/ \E t \in cfg.tabs : Inflight < MaxInflight /\ Logout(t) /\ Kept /\ Track
  \/ \E t \in cfg.tabs : \E st \in Statuses : LogoutFinish(t, st) /\ Kept /\ Track
  \/ \E t \in cfg.tabs : Inflight < MaxInflight /\ FetchStart(t) /\ Kept /\ Track
  \/ \E t \in cfg.tabs : \E st \in Statuses : \E u \in cfg.users :
       FetchFinish(t, st, u) /\ Kept /\ Track
  \/ \E t \in cfg.tabs : \E st \in Statuses : listExpenses(t, st)
  \/ \E t \in cfg.tabs : \E st \in Statuses : fetchStockBalances(t, st)
  \/ \E t \in cfg.tabs : \E id \in cfg.ids \cup {0} : \E st \in Statuses :
       \E code \in BOOLEAN : approveByCode(t, id, code, st)
  \/ \E t \in cfg.tabs : \E id \in cfg.ids \cup {0} : \E st \in AdminStatuses(t) :
       approveDevice(t, id, st)
  \/ \E t \in cfg.tabs : \E st \in AdminStatuses(t) : approvePending(t, st)
  \/ \E t \in cfg.tabs : \E st \in AdminStatuses(t) : \E list \in SUBSET cfg.ids :
       getDeviceRequests(t, st, list)
  \/ \E t \in cfg.tabs : \E st \in AdminStatuses(t) :
       \E n \in 0..Cardinality(cfg.ids) : getDeviceSummary(t, st, n)
  \/ \E t \in cfg.tabs : \E id \in cfg.ids : \E st \in AdminStatuses(t) :
       rejectDeviceRequest(t, id, st)
  \/ \E t \in cfg.tabs : clearNeedsApproval(t)

SpecAdmin == InitAdmin /\ [][NextAdmin]_vars

\* ------------------------------------------------ the admin dashboard

\* the session is left alone by the pages
SessionKept ==
  UNCHANGED <<cfg, now, storage, token, user, pendingApproval, timers,
              logoutTimerRef, loginSent, logoutSent, fetchTok, storageEvents,
              bootProfile, deviceRequests, deviceSummary, revoked>>

\* load(range) of tab t: the fetches are made with the token of the session
\* and answered with status st; without a token nothing is asked and each of
\* them resolves with its empty value; if one of them throws nothing is set
load(t, st) ==
  LET asked == getAuthToken(t) # 0
      done == ~asked \/ st = 200
  IN  /\ salesSummary' = IF done THEN fetchSummaryByDate(t) ELSE salesSummary
      /\ expenses' = IF done THEN expenseRows(t) ELSE expenses
      /\ cogsSummary' = IF done THEN fetchCogsSummary(t) ELSE cogsSummary
      /\ emitted' = {}
      /\ ret' = Ret(t, "load", IF done THEN "set" ELSE "throw",
                    Resp(IF asked THEN st ELSE 0, getAuthToken(t), 0, FALSE, NoBody))
      /\ SessionKept
      /\ UNCHANGED <<backend, amountIn, amountOut, otherPages>>

\* the dashboard of a session with or without a stored token, in front of a
\* backend with its answers ready
InitDashboard ==
  /\ SessionInit({AdminConfig})
  /\ backend \in IF storage[TOKEN_KEY] = 0 THEN {NoAnswer} ELSE BackendAnswers
  /\ DashboardInit
  /\ amountIn = NoAmount
  /\ amountOut = NotNormalised
  /\ OtherPagesInit

NextDashboard == \E t \in cfg.tabs : \E st \in Statuses : load(t, st)

SpecDashboard == InitDashboard /\ [][NextDashboard]_vars

\* ------------------------------------------------ the amount normalisers

\* num, toNum of the sale provider and toNum of the cashier page applied to
\* the same value
Normalise ==
  /\ amountOut.stage = 0
  /\ amountOut' = [amountOut EXCEPT !.stage = 1,
                     !.first = Results(num(amountIn), toNum(amountIn),
                                       toNumCashier(amountIn))]
  /\ UNCHANGED <<emitted, ret, backend, salesSummary, expenses, cogsSummary, amountIn,
                 otherPages>>
  /\ SessionKept

\* each of them applied to its own result
Renormalise ==
  /\ amountOut.stage = 1
  /\ amountOut' = [amountOut EXCEPT !.stage = 2,
                     !.again = Results(num(Fin(amountOut.first.num)),
                                       toNum(Fin(amountOut.first.toNum)),
                                       toNumCashier(Fin(amountOut.first.toNumCashier)))]
  /\ UNCHANGED <<emitted, ret, backend, salesSummary, expenses, cogsSummary, amountIn,
                 otherPages>>
  /\ SessionKept

InitAmount ==
  /\ SessionInit({AdminConfig})
  /\ storage[TOKEN_KEY] = 0
  /\ backend = NoAnswer
  /\ DashboardInit
  /\ amountIn \in AmountInputs
  /\ amountOut = NotNormalised
  /\ OtherPagesInit

NextAmount == Normalise \/ Renormalise

SpecAmount == InitAmount /\ [][NextAmount]_vars

\* ------------------------------------------------ the field pickers

\* the three readers pick gross, paid and balance of the same record
Pick ==
  /\ pick.stage = 0
  /\ pick' = [pick EXCEPT
       !.stage = 1,
       !.summary = Picked(summaryGross(pick.record), summaryPaid(pick.record),
                          summaryBalance(pick.record)),
       !.dashboard = Picked(dashboardGross(pick.record), dashboardPaid(pick.record),
                            dashboardBalance(pick.record)),
       !.cashier = Picked(getGross(pick.record), getPaid(pick.record),
                          getDue(pick.record))]
  /\ UNCHANGED <<emitted, ret, backend, salesSummary, expenses, cogsSummary, amountIn,
                 amountOut, refresh, cashier, route, server>>
  /\ SessionKept

InitPick ==
  /\ SessionInit({AdminConfig})
  /\ storage[TOKEN_KEY] = 0
  /\ backend = NoAnswer
  /\ DashboardInit
  /\ amountIn = NoAmount
  /\ amountOut = NotNormalised
  /\ pick \in {[NoPick EXCEPT !.record = r] : r \in PickRecords}
  /\ refresh = RefreshInit
  /\ cashier = CashierInit
  /\ route = NoRoute
  /\ server = {}

NextPick == Pick

SpecPick == InitPick /\ [][NextPick]_vars

\* ------------------------------------------------ overlapping loads

RefreshKept ==
  /\ SessionKept
  /\ UNCHANGED <<emitted, ret, amountIn, amountOut, pick, cashier, route, server>>

DataKept == UNCHANGED <<backend, salesSummary, expenses, cogsSummary>>

Pending == {i \in 1..Len(refresh.loads) : refresh.loads[i].state = "pending"}

\* runWithLoadingToast(() => load(range)) up to the await of Promise.all:
\* beginLoadingToast, setLoading(true) and the four fetches sent
Issue(R, range) ==
  [R EXCEPT !.loading = TRUE, !.loadingToastRef = TRUE, !.toast = "loading",
            !.loads = Append(R.loads, Load(range, Pending)), !.edited = FALSE]

\* the mount effect
Mount ==
  /\ ~refresh.mounted
  /\ refresh' = Issue([refresh EXCEPT !.mounted = TRUE], refresh.filters)
  /\ DataKept
  /\ RefreshKept

\* applyRange of onToday, onYesterday and onLast7
applyRange(range) ==
  /\ refresh.mounted
  /\ Len(refresh.loads) < MaxLoads
  /\ refresh' = Issue([refresh EXCEPT !.filters = range], range)
  /\ DataKept
  /\ RefreshKept

\* onRefresh and onApply: load() with the filters of the render
onRefresh ==
  /\ refresh.mounted
  /\ Len(refresh.loads) < MaxLoads
  /\ refresh' = Issue(refresh, refresh.filters)
  /\ DataKept
  /\ RefreshKept

\* onChange of the date inputs
onChange(key, d) ==
  /\ refresh.mounted
  /\ refresh.filters[key] # d
  /\ refresh' = [refresh EXCEPT !.filters[key] = d, !.edited = TRUE]
  /\ DataKept
  /\ RefreshKept

\* resolveLoadingToast
resolveLoadingToast(R) ==
  IF ~R.loadingToastRef THEN R
  ELSE [R EXCEPT !.toast = "success", !.loadingToastRef = FALSE]

\* rejectLoadingToast
rejectLoadingToast(R) ==
  IF ~R.loadingToastRef THEN R
  ELSE [R EXCEPT !.toast = "error", !.loadingToastRef = FALSE]

\* the fetch f of the pending load i of tab t settles.  Promise.all rejects
\* with the first fetch that throws: finally sets loading to false, the
\* toast is rejected and nothing is set, whatever the other fetches answer
\* later.  With the fourth fetch resolved the four results are set together
\* and the toast is resolved.
Settle(t, i, f, ok) ==
  LET l == refresh.loads[i]
      all == l.ok \cup {f} = Fetches
      R == [refresh EXCEPT
              !.loads[i].ok = IF ok THEN l.ok \cup {f} ELSE l.ok,
              !.loads[i].state = IF ~ok THEN "failed"
                                 ELSE IF all THEN "set" ELSE "pending",
              !.loading = IF ok /\ ~all THEN refresh.loading ELSE FALSE]
  IN  /\ i \in Pending
      /\ f \notin l.ok
      /\ RefreshKept
      /\ IF ok /\ all
         THEN /\ backend' = AnswersOf(l.range)
              /\ salesSummary' = fetchSummaryByDate(t)'
              /\ expenses' = expenseRows(t)'
              /\ cogsSummary' = fetchCogsSummary(t)'
              /\ refresh' = resolveLoadingToast(
                   [R EXCEPT !.cartonsSummary = fetchCartonsBySize(l.range),
                             !.from = [g \in Fetches |-> i]])
         ELSE /\ DataKept
              /\ refresh' = IF ok THEN R ELSE rejectLoadingToast(R)

\* the dashboard of a session with a stored token
InitRefresh ==
  /\ SessionInit({AdminConfig})
  /\ storage[TOKEN_KEY] # 0
  /\ backend = NoAnswer
  /\ DashboardInit
  /\ amountIn = NoAmount
  /\ amountOut = NotNormalised
  /\ OtherPagesInit

NextRefresh ==
  \/ Mount
  \/ \E range \in {RangeOf(todayKE, todayKE), RangeOf(yesterdayKE, yesterdayKE),
                    last7DaysKE} : applyRange(range)
  \/ onRefresh
  \/ \E key \in {"date_from", "date_to"} : \E d \in Days : onChange(key, d)
  \/ \E t \in cfg.tabs : \E i \in Pending : \E f \in Fetches : \E ok \in BOOLEAN :
       Settle(t, i, f, ok)

SpecRefresh == InitRefresh /\ [][NextRefresh]_vars

\* ------------------------------------------------ the /admin/users route

\* the visitor opens /admin/users
Navigate ==
  /\ route.view.page = "none"
  /\ route' = [route EXCEPT !.view = RequireAdmin(route.visitor)]
  /\ SessionKept
  /\ UNCHANGED <<emitted, ret, backend, salesSummary, expenses, cogsSummary, amountIn,
                 amountOut, pick, refresh, cashier, server>>

InitRoute ==
  /\ SessionInit({AdminConfig})
  /\ storage[TOKEN_KEY] = 0
  /\ backend = NoAnswer
  /\ DashboardInit
  /\ amountIn = NoAmount
  /\ amountOut = NotNormalised
  /\ pick = NoPick
  /\ refresh = RefreshInit
  /\ cashier = CashierInit
  /\ route \in {[NoRoute EXCEPT !.visitor = v] : v \in Visitors}
  /\ server = {}

NextRoute == Navigate

SpecRoute == InitRoute /\ [][NextRoute]_vars

\* ------------------------------------------------ the cashier's net

CashierKept ==
  /\ SessionKept
  /\ UNCHANGED <<emitted, ret, backend, salesSummary, expenses, cogsSummary, amountIn,
                 amountOut, pick, refresh, route, server>>

\* loadExpensesTotals(range) of tab t: listExpenses of the provider answers
\* (ok) or throws, and then GET /expenses answers (again) or the total is 0
loadExpensesTotals(t, ok, again) ==
  /\ cashier' = [cashier EXCEPT
       !.expensesTotal = IF ok THEN reduceAmounts(expenseRows(t))
                         ELSE IF again THEN reduceAmounts(backend.expenses)
                         ELSE 0,
       !.expensesBy = IF ok THEN "listExpenses"
                      ELSE IF again THEN "apiGet" ELSE "catch"]
  /\ CashierKept

\* loadCogsPurchasesTotals(range): the provider has neither listCogsPurchases
\* nor listCogs; fetchCogsSummary answers (ok) or throws, and then GET /cogs
\* answers (again) or the total is 0
loadCogsPurchasesTotals(t, ok, again) ==
  /\ cashier' = [cashier EXCEPT
       !.cogsPurchasesTotal = IF ok THEN guess
                              ELSE IF again THEN reduceAmounts(listedCogs)
                              ELSE 0,
       !.cogsBy = IF ok THEN "fetchCogsSummary"
                  ELSE IF again THEN "apiGet" ELSE "catch"]
  /\ CashierKept

\* the cashier page and the dashboard of a session with a stored token, in
\* front of the same backend
InitCashier ==
  /\ SessionInit({AdminConfig})
  /\ storage[TOKEN_KEY] # 0
  /\ backend \in {[NoAnswer EXCEPT !.expenses = ex] :
                    ex \in SeqsUpTo(ExpenseAnswers, MaxRecords)}
  /\ DashboardInit
  /\ amountIn = NoAmount
  /\ amountOut = NotNormalised
  /\ pick = NoPick
  /\ refresh = RefreshInit
  /\ cashier \in {[CashierInit EXCEPT !.sales = sa] : sa \in CashierSales}
  /\ route = NoRoute
  /\ server = {}

NextCashier ==
  \/ \E t \in cfg.tabs : \E ok, again \in BOOLEAN : loadExpensesTotals(t, ok, again)
  \/ \E t \in cfg.tabs : \E ok, again \in BOOLEAN : loadCogsPurchasesTotals(t, ok, again)
  \/ \E t \in cfg.tabs : load(t, 200)

SpecCashier == InitCashier /\ [][NextCashier]_vars

\* ------------------------------------------------ the heartbeat
\* One tab of the back office whose token has no exp: no timer ends its
\* session.  The server may revoke the token at any time.

\* the server revokes the token k
Revoke(k) ==
  /\ k \notin server
  /\ server' = server \cup {k}
  /\ SessionKept
  /\ UNCHANGED <<emitted, ret, backend, salesSummary, expenses, cogsSummary, amountIn,
                 amountOut, pick, refresh, cashier, route>>

\* ping of the heartbeat effect, called by setInterval every HEARTBEAT_MS and
\* by a visibilitychange to "visible"
ping(t) == t \in cfg.tabs /\ FetchStart(t) /\ Kept /\ Untracked

\* what GET /current-user answers to a request that carries the token k: no
\* answer, an error of the server, 401 if k is revoked and the profile if not
CurrentUserStatuses(k) == {0, 500} \cup (IF k \in server THEN {401} ELSE {200})

\* the check of tab t is answered
Answer(t, st) ==
  /\ t \in cfg.tabs
  /\ st \in CurrentUserStatuses(fetchTok[t])
  /\ \E u \in cfg.users : FetchFinish(t, st, u)
  /\ Kept /\ Untracked

\* the tab is logged in: token and user are held and stored, the heartbeat
\* effect is installed and no request is in flight
InitHeartbeat ==
  /\ now = 3
  /\ cfg = AdminConfig
  /\ \E k \in AdminConfig.tokens : \E u \in AdminConfig.users :
       /\ storage = [token |-> k, auth_user |-> u]
       /\ token = [t \in Tabs |-> IF t \in AdminConfig.tabs THEN k ELSE 0]
       /\ user = [t \in Tabs |-> IF t \in AdminConfig.tabs THEN u ELSE 0]
  /\ timers = [t \in Tabs |-> {}]
  /\ logoutTimerRef = [t \in Tabs |-> NoTimer]
  /\ fetchTok = [t \in Tabs |-> 0]
  /\ bootProfile = [t \in Tabs |-> "none"]
  /\ pendingApproval = [t \in Tabs |-> NoPending]
  /\ loginSent = [t \in Tabs |-> FALSE]
  /\ logoutSent = [t \in Tabs |-> FALSE]
  /\ storageEvents = [t \in Tabs |-> {}]
  /\ emitted = {}
  /\ ret = NoRet
  /\ deviceRequests = [t \in Tabs |-> {}]
  /\ deviceSummary = [t \in Tabs |-> NoSummary]
  /\ revoked = [t \in Tabs |-> FALSE]
  /\ backend = NoAnswer
  /\ DashboardInit
  /\ amountIn = NoAmount
  /\ amountOut = NotNormalised
  /\ OtherPagesInit

NextHeartbeat ==
  \/ \E k \in cfg.tokens : Revoke(k)
  \/ \E t \in Tabs : ping(t)
  \/ \E t \in Tabs : \E st \in Statuses : Answer(t, st)
  \/ \E t \in cfg.tabs : LoginStart(t) /\ Kept /\ Untracked
  \/ \E t \in cfg.tabs : \E r \in LoginResponses :
       r.token \notin server /\ LoginFinish(t, r) /\ Kept /\ Untracked
  \/ \E t \in cfg.tabs : Logout(t) /\ Kept /\ Untracked
  \/ \E t \in cfg.tabs : \E st \in Statuses : LogoutFinish(t, st) /\ Kept /\ Untracked

\* setInterval keeps calling ping while the effect is installed, and a
\* server that is asked again and again does answer: with 401 if the token
\* is revoked
SpecHeartbeat ==
  /\ InitHeartbeat
  /\ [][NextHeartbeat]_vars
  /\ \A t \in Tabs : WF_vars(ping(t)) /\ SF_vars(Answer(t, 401))

\* =================================================================== C1
\* token and user of a tab are both set or both empty
Paired(t) == (token[t] = 0) <=> (user[t] = 0)

C2_LogoutClearsLocally ==
  ret.op = "logout" =>
    /\ ret.kind = "true"
    /\ token[ret.tab] = 0 /\ user[ret.tab] = 0
    /\ storage[TOKEN_KEY] = 0 /\ storage[USER_KEY] = 0
    /\ timers[ret.tab] = {} /\ logoutTimerRef[ret.tab] = NoTimer
    /\ "auth:logout" \in emitted

\* a logout whose server call was answered with status 500 has returned
C2_Witness == ret.op = "logout" /\ ret.in.status = 500

\* =================================================================== C3
\* C3: a call through request that is answered 401 ends with token and user
\* of the tab empty, both keys gone from localStorage, no timer left and
\* auth:unauthorized dispatched; a login or profile call that fails with any
\* other status, or without an answer, changes nothing of the session
\* (logout is left out of the second half: it clears the session itself).
C3_Only401Clears ==
  [][ /\ (ret'.op \in {"login", "logout", "fetchCurrentUser"} /\ ret'.in.status = 401)
           => /\ token'[ret'.tab] = 0 /\ user'[ret'.tab] = 0
              /\ storage'[TOKEN_KEY] = 0 /\ storage'[USER_KEY] = 0
              /\ timers'[ret'.tab] = {} /\ logoutTimerRef'[ret'.tab] = NoTimer
              /\ "auth:unauthorized" \in emitted'
      /\ (ret'.op \in {"login", "fetchCurrentUser"} /\ ret'.in.status \notin {200, 401})
           => UNCHANGED <<token, user, storage, timers, logoutTimerRef>>
    ]_vars

\* a profile call of a tab was answered 401
C3_Witness ==
  /\ ret.op = "fetchCurrentUser" /\ ret.in.status = 401
  /\ "auth:unauthorized" \in emitted

\* =================================================================== C4
\* the exp claim of the token is a non-zero instant that is not after now
ExpiredNow(tok) ==
  /\ JwtPayload(tok).hasExp
  /\ JwtPayload(tok).exp # 0
  /\ JwtPayload(tok).exp * UnitsPerSecond <= now

\* the step is a login, or a profile fetch, answered with a token and a user
AssignStep ==
  \/ ret'.op = "login" /\ ret'.kind = "ok"
  \/ ret'.op = "fetchCurrentUser" /\ ret'.kind = "user"

C6_FailedLoginKeepsSession ==
  [][ (ret'.op = "login" /\ ret'.kind = "error") =>
        UNCHANGED <<token, user, storage>>
    ]_vars

\* =================================================================== C7
\* a tab that still holds a token after localStorage lost its token has the
\* removal event waiting
NoStaleTab ==
  \A t \in cfg.tabs :
    (storage[TOKEN_KEY] = 0 /\ token[t] # 0) => 0 \in storageEvents[t]

\* C7: a tab that handles the storage event of the token's removal ends with
\* token and user empty in memory and sends no request for it; and a tab
\* never holds a token after the shared token was removed unless that event
\* is still waiting for it, so no tab stays logged in after a logout
\* elsewhere.
C7_CrossTabClear ==
  [][ /\ (ret'.op = "storage" /\ ret'.in.token = 0) =>
            /\ token'[ret'.tab] = 0 /\ user'[ret'.tab] = 0
            /\ UNCHANGED <<loginSent, logoutSent, fetchTok>>
      /\ NoStaleTab'
    ]_vars

\* with two tabs open, a tab that held a token has handled the removal event
\* raised by the other tab
C7_Witness ==
  /\ cfg.tabs = Tabs
  /\ ret.op = "storage" /\ ret.in.token = 0 /\ ret.was # 0
  /\ token[ret.tab] = 0 /\ user[ret.tab] = 0

\* =================================================================== C8
\* C8: when the auto-logout timer of a token runs and clears the session, the
\* expiry instant of that token is not in the future.
C8_TimerNotBeforeExpiry ==
  ret.op = "timer" =>
    JwtPayload(ret.in.token).exp * UnitsPerSecond <= now

\* =================================================================== C9
\* C9: after a token whose exp decodes to an instant that is not after now
\* was assigned - by a login, by a profile refresh or by the boot - the
\* session is cleared (memory and localStorage) and no timer is left.
C9_ExpiredTokenCleared ==
  ( /\ \/ ret.op = "login" /\ ret.kind = "ok"
       \/ ret.op = "fetchCurrentUser" /\ ret.kind = "user"
       \/ ret.op = "load" /\ ret.in.token # 0
    /\ JwtPayload(ret.in.token).hasExp
    /\ JwtPayload(ret.in.token).exp * UnitsPerSecond <= now )
  => /\ token[ret.tab] = 0 /\ user[ret.tab] = 0
     /\ storage[TOKEN_KEY] = 0 /\ storage[USER_KEY] = 0
     /\ timers[ret.tab] = {}

\* ================================================================== C10
\* C10: in every reachable state a tab has at most one timer scheduled, and
\* it is the one logoutTimerRef refers to.
C10_AtMostOneTimer ==
  \A t \in Tabs :
    /\ Cardinality(timers[t]) <= 1
    /\ timers[t] \subseteq {logoutTimerRef[t]}

\* a profile refresh has re-assigned the token the tab already held and the
\* tab has one timer: the earlier one was cancelled
C10_Witness ==
  /\ ret.op = "fetchCurrentUser" /\ ret.kind = "user"
  /\ ret.was = ret.in.token
  /\ Cardinality(timers[ret.tab]) = 1

\* ================================================================== C11
\* the calls that carry the token of the session
AuthenticatedCalls ==
  {"logout", "fetchCurrentUser", "approveByCode", "approveDevice",
   "getDeviceRequests", "getDeviceSummary", "rejectDeviceRequest",
   "listExpenses", "fetchStockBalances"}

\* C11: whenever an authenticated call of the client - a user or device call,
\* a sales or expenses call, a packaging call - whose request carried a token
\* was answered 401, the session of the tab is cleared (memory and
\* localStorage) and auth:unauthorized was dispatched.
C11_Every401Clears ==
  (ret.op \in AuthenticatedCalls /\ ret.in.status = 401 /\ ret.in.token # 0) =>
    /\ token[ret.tab] = 0 /\ user[ret.tab] = 0
    /\ storage[TOKEN_KEY] = 0 /\ storage[USER_KEY] = 0
    /\ "auth:unauthorized" \in emitted

\* ================================================================== C12
\* the step sends a request of tab t that carries a token
SendsToken(t) ==
  \/ fetchTok[t] = 0 /\ fetchTok'[t] # 0
  \/ ~logoutSent[t] /\ logoutSent'[t]
  \/ /\ ret'.tab = t /\ ret'.op \in AuthenticatedCalls
     /\ ret'.kind \in {"res", "data", "throw"} /\ ret'.in.token # 0
     /\ ret'.op \notin {"logout", "fetchCurrentUser"}

\* C12: once an authenticated call of a tab was answered 401 and the session
\* was cleared, the tab sends no request that carries a token until a login
\* has succeeded.
C12_NoCallAfterRevocation ==
  [][ \A t \in Tabs : revoked[t] => ~SendsToken(t) ]_vars

\* ================================================================== C13
\* the request id of the pending approval of the tab before the step
PendingId == pendingApproval[ret'.tab].request_id

\* C13: a pending approval appears only with the pending result of a login;
\* an approval - by approveDevice or by approveByCode - that succeeds for the
\* request id of the pending approval removes it, and one that succeeds for
\* another request id leaves it as it was.
C13_PendingLifecycle ==
  [][ /\ (\E t \in Tabs : ~pendingApproval[t].present /\ pendingApproval'[t].present)
           => (ret'.op = "login" /\ ret'.kind = "pending")
      /\ (ret'.op \in {"approveDevice", "approveByCode"} /\ ret'.kind = "res")
           => IF PendingId # 0 /\ PendingId = ret'.in.body.request_id
              THEN ~pendingApproval'[ret'.tab].present
              ELSE UNCHANGED pendingApproval
    ]_vars

\* ================================================================== C14
\* C14: when approveByCode, approveDevice or rejectDeviceRequest has returned
\* the answer of the server, the request it was about is not in the cached
\* list of device requests; when getDeviceRequests has, the cached list is
\* the list of the answer, and when getDeviceSummary has, a summary is
\* cached.
C14_CacheRefreshed ==
  /\ (ret.op \in {"approveByCode", "approveDevice", "rejectDeviceRequest"}
      /\ ret.kind = "res")
       => ret.in.body.request_id \notin deviceRequests[ret.tab]
  /\ (ret.op = "getDeviceRequests" /\ ret.kind = "res")
       => deviceRequests[ret.tab] = ret.in.list
  /\ (ret.op = "getDeviceSummary" /\ ret.kind = "res")
       => deviceSummary[ret.tab].present

\* ------------------------------------------------ C15

\* the rows the dashboard shows: none if the render throws
renderedRows == IF RenderThrows THEN <<>> ELSE dayRows

\* the dates of the loaded records that have one
ValidDates ==
  {salesSummary[i].date : i \in {j \in 1..Len(salesSummary) : salesSummary[j].date # 0}}
  \cup {isoOf(expenses[i]) : i \in {j \in 1..Len(expenses) : ~DateThrows(expenses[j])}}

RowsOf(d) == {k \in 1..Len(renderedRows) : renderedRows[k].date = d}

\* C15: the daily rows contain exactly one row for each calendar date that
\* occurs in at least one valid record of the sales summary or of the
\* expenses (operating or COGS purchases): no date twice, no such date
\* missing, and no row for another date.
C15_OneRowPerDate ==
  /\ \A d \in ValidDates : Cardinality(RowsOf(d)) = 1
  /\ \A k \in 1..Len(renderedRows) : renderedRows[k].date \in ValidDates

\* ------------------------------------------------ C16

Max0(n) == IF n > 0 THEN n ELSE 0

\* the row of the answer that the daily row of date d was made of: the last
\* one of that date
SourceOf(d) ==
  LET of == {i \in 1..Len(salesSummary) : salesSummary[i].date = d} IN
  CHOOSE i \in of : \A j \in of : j <= i

HasSource(d) == \E i \in 1..Len(salesSummary) : salesSummary[i].date = d

\* C16: a daily row whose sales record has no balance of its own has the
\* balance max(0, gross - paid), never a negative one; a balance the record
\* supplies is the balance of the row.
C16_BalanceDerived ==
  \A k \in 1..Len(renderedRows) :
    LET row == renderedRows[k] IN
    HasSource(row.date) =>
      LET r == backend.sales[SourceOf(row.date)] IN
      IF r.balance.type = "undefined"
      THEN row.balance = Max0(row.gross - row.paid)
      ELSE row.balance = r.balance.n

\* ------------------------------------------------ C17

RECURSIVE SumOver(_, _)
\* the sum of f[i] over the indexes i of I
SumOver(I, f) ==
  IF I = {} THEN 0
  ELSE LET i == CHOOSE x \in I : TRUE IN f[i] + SumOver(I \ {i}, f)

CogsCategory(e) == e.category \in {"COGS", "Cogs", "cogs"}

\* the expense records of date d that are (cogs) or are not COGS purchases
ExpensesOf(d, cogs) ==
  {i \in 1..Len(expenses) : isoOf(expenses[i]) = d /\ CogsCategory(expenses[i]) = cogs}

ExpenseAmounts == [i \in 1..Len(expenses) |-> expenses[i].amount.n]

\* the row of scenario D
ScenarioD ==
  [date |-> 1, gross |-> 10000, paid |-> 7000, balance |-> 3000, count |-> 1,
   opEx |-> 500, cogsPurch |-> 300]

\* C17: when the dashboard renders, the daily row of every date has as opEx
\* the sum of that date's expense records whose category is not COGS and as
\* cogsPurch the sum of those whose category is COGS, whatever the case of
\* the letters; the net of the day is paid - (opEx + cogsPurch) in the
\* chart, the mobile card and the table alike; gross 10000, paid 7000, one
\* expense of 500 and one COGS purchase of 300 give balance 3000 and net 6200.
C17_DailySplit ==
  ~RenderThrows =>
    /\ \A d \in ValidDates : \E k \in 1..Len(dayRows) : dayRows[k].date = d
    /\ \A k \in 1..Len(dayRows) :
         LET row == dayRows[k]
             opEx == SumOver(ExpensesOf(row.date, FALSE), ExpenseAmounts)
             purchases == SumOver(ExpensesOf(row.date, TRUE), ExpenseAmounts)
         IN  /\ row.opEx = opEx
             /\ row.cogsPurch = purchases
             /\ chartDailyArea[k].Net = row.paid - (opEx + purchases)
             /\ cardNet(row) = row.paid - (opEx + purchases)
             /\ tableNet(row) = row.paid - (opEx + purchases)
             /\ chartDailyArea[k].Paid = row.paid
             /\ chartDailyArea[k].Expenses = opEx
             /\ (row.gross = 10000 /\ row.paid = 7000 /\ opEx = 500 /\ purchases = 300
                 /\ backend.sales[SourceOf(row.date)].balance.type = "undefined")
                => row.balance = 3000 /\ tableNet(row) = 6200

\* scenario D has been loaded and is shown
C17_Witness ==
  /\ ~RenderThrows
  /\ Len(expenses) = 2
  /\ \E i \in 1..2 : expenses[i].category = "Cogs"
  /\ dayRows = <<ScenarioD>>
  /\ chartDailyArea[1].Net = 6200
  /\ cardNet(dayRows[1]) = 6200

\* ------------------------------------------------ C18

SalesColumn(key) == [i \in 1..Len(salesSummary) |-> salesSummary[i][key]]
DayColumn(key) == [k \in 1..Len(dayRows) |-> dayRows[k][key]]

AllExpenses(cogs) == {i \in 1..Len(expenses) : CogsCategory(expenses[i]) = cogs}

\* every row of sales has a date and no two of them the same
SalesWellFormed ==
  /\ \A i \in 1..Len(salesSummary) : salesSummary[i].date # 0
  /\ \A i, j \in 1..Len(salesSummary) :
       salesSummary[i].date = salesSummary[j].date => i = j

\* the totals of the answer of the COGS summary that was loaded
LoadedCogs ==
  IF backend.cogs.totals
  THEN [sales |-> backend.cogs.sales.n, cogs |-> backend.cogs.cogs.n]
  ELSE [sales |-> 0, cogs |-> 0]

\* C18: when the dashboard renders, the headline totals are the sums of the
\* columns of the loaded records (and of the daily rows, when every sales row
\* has a date of its own); net = paid - (opEx + COGS purchases); netProfit =
\* (cogsSales - cogsCost) - opEx with cogsSales and cogsCost those of the
\* COGS summary that was fetched, the COGS purchases not entering it; with
\* nothing loaded every total is zero and the render does not throw.
C18_HeadlineTotals ==
  LET N == 1..Len(salesSummary)
      opEx == SumOver(AllExpenses(FALSE), ExpenseAmounts)
      purchases == SumOver(AllExpenses(TRUE), ExpenseAmounts)
      paid == SumOver(N, SalesColumn("paid"))
      loaded == ret.op = "load" /\ ret.kind = "set"
  IN
  /\ ~RenderThrows =>
       /\ totalSales = [gross |-> SumOver(N, SalesColumn("gross")), paid |-> paid,
                        balance |-> SumOver(N, SalesColumn("balance")),
                        count |-> SumOver(N, SalesColumn("count"))]
       /\ opExTotal = opEx
       /\ cogsPurchasesTotal = purchases
       /\ net = paid - (opEx + purchases)
       /\ netProfit = (cogsTotals.sales - cogsTotals.cogs) - opEx
       /\ (loaded /\ getAuthToken(ret.tab) # 0) => cogsTotals = LoadedCogs
       /\ SalesWellFormed =>
            /\ \A key \in {"gross", "paid", "balance", "count"} :
                 SumOver(1..Len(dayRows), DayColumn(key)) = totalSales[key]
            /\ SumOver(1..Len(dayRows), DayColumn("opEx")) = opExTotal
            /\ SumOver(1..Len(dayRows), DayColumn("cogsPurch")) = cogsPurchasesTotal
  /\ (salesSummary = <<>> /\ expenses = <<>> /\ cogsSummary = [sales |-> 0, cogs |-> 0])
       => /\ ~RenderThrows
          /\ totalSales = [gross |-> 0, paid |-> 0, balance |-> 0, count |-> 0]
          /\ opExTotal = 0 /\ cogsPurchasesTotal = 0 /\ net = 0 /\ netProfit = 0
          /\ dayRows = <<>>

\* sales, an operating expense, a COGS purchase and the COGS summary are
\* loaded: netProfit is 9000 - 4000 - 500, the purchase of 300 is in net only
C18_Witness ==
  /\ ~RenderThrows
  /\ ret.op = "load" /\ ret.kind = "set"
  /\ totalSales.paid = 7000
  /\ opExTotal = 500
  /\ cogsPurchasesTotal = 300
  /\ net = 6200
  /\ cogsTotals = [sales |-> 9000, cogs |-> 4000]
  /\ netProfit = 4500

\* ------------------------------------------------ C19

\* a string that is not a number once the currency words, the commas and
\* the white space are taken out of it
NotANumber(v) ==
  /\ v.type = "string"
  /\ StringToNumber(Without(ReplaceFrom(v.s, 1, TRUE), {",", " "})).nan

\* the values the normaliser is to turn into 0
ZeroInput(v) ==
  \/ v.type \in {"null", "undefined", "NaN", "Infinity"}
  \/ v = Str(<<>>)
  \/ NotANumber(v)

\* C19: each copy of the amount normaliser (num of the dashboard, toNum of
\* the sale provider, toNum of the cashier page) is idempotent, and returns
\* 0 for null, undefined, the empty string, a number that is not finite and
\* a string that is not a number after its currency decoration is stripped.
C19_NormaliserZeroIdempotent ==
  /\ (amountOut.stage >= 1 /\ ZeroInput(amountIn))
       => amountOut.first = Results(0, 0, 0)
  /\ amountOut.stage = 2 => amountOut.again = amountOut.first

\* ------------------------------------------------ C20

NetOf(row) == row.paid - (row.opEx + row.cogsPurch)

\* the trend T is the change from prev to curr, with its percentage of prev
\* (as the fraction num / den) if hasPct and without percentage if not
IsTrend(T, prev, curr, hasPct) ==
  /\ ~T.isNull
  /\ T.delta = curr - prev
  /\ T.pctNull = ~hasPct
  /\ hasPct => (T.num = (curr - prev) * 100 /\ T.den = prev)

Ascending == \A k \in 1..(Len(dayRows) - 1) : dayRows[k].date < dayRows[k + 1].date

\* the trends of the three KPIs are those of the last two daily rows, with a
\* percentage exactly for the baselines in HasPct
TrendsWith(HasPct(_)) ==
  LET n == Len(dayRows) IN
  ~RenderThrows =>
    /\ Ascending
    /\ n < 2 => /\ \A key \in {"paid", "opEx"} : trendFrom(dayRows, key).isNull
                /\ trendNet(dayRows).isNull
    /\ n >= 2 =>
         /\ \A key \in {"paid", "opEx"} :
              IsTrend(trendFrom(dayRows, key), dayRows[n - 1][key], dayRows[n][key],
                      HasPct(dayRows[n - 1][key]))
         /\ IsTrend(trendNet(dayRows), NetOf(dayRows[n - 1]), NetOf(dayRows[n]),
                    HasPct(NetOf(dayRows[n - 1])))

NonZero(prev) == prev # 0
Positive(prev) == prev > 0

\* C20 as stated: the trend helpers return no trend for fewer than two daily
\* rows; for two or more they return the change of the field between the
\* second-to-last and the last row in ascending order of date with its
\* percentage of the baseline, the percentage being undefined when the
\* baseline is zero.
C20_TrendAsStated == TrendsWith(NonZero)

\* C20, amended: the same, the percentage being undefined whenever the
\* baseline is zero or negative (a day whose expenses and COGS purchases
\* exceed what was paid has a negative net).
C20_TrendAmended == TrendsWith(Positive)

\* two days are shown and the net of the first one is negative
C20_Witness ==
  /\ ~RenderThrows
  /\ Len(dayRows) >= 2
  /\ NetOf(dayRows[Len(dayRows) - 1]) < 0
  /\ NetOf(dayRows[Len(dayRows)]) > 0
  /\ ~trendNet(dayRows).isNull
  /\ trendNet(dayRows).pctNull
  /\ trendFrom(dayRows, "opEx").num < 0

\* ------------------------------------------------ C21

\* the loaded expense records without a usable date
Undated == {i \in 1..Len(expenses) : DateThrows(expenses[i])}

\* C21: an expense or COGS-purchase record without a usable date is left out
\* of the daily grouping without any error being raised (the dashboard still
\* renders, and no row is made for it), and its amount still counts in the
\* range-wide OpEx or COGS-purchase total.
C21_UndatedSkipped ==
  Undated # {} =>
    /\ ~RenderThrows
    /\ \A k \in 1..Len(renderedRows) : renderedRows[k].date # 0
    /\ opExTotal = SumOver(AllExpenses(FALSE), ExpenseAmounts)
    /\ cogsPurchasesTotal = SumOver(AllExpenses(TRUE), ExpenseAmounts)

\* ------------------------------------------------ C29

\* C29: for each of gross, paid, balance and sale count, the sum of the
\* column over the daily rows equals the headline total, for every sales
\* summary, also one with two records of the same date or with a record
\* without a date.
C29_ColumnsMatchTotals ==
  ~RenderThrows =>
    \A key \in {"gross", "paid", "balance", "count"} :
      SumOver(1..Len(dayRows), DayColumn(key)) = totalSales[key]

\* ------------------------------------------------ C28

\* the session of the tab is cleared: no token in memory, none stored
Cleared(t) == token[t] = 0 /\ user[t] = 0 /\ storage[TOKEN_KEY] = 0

\* C28: once the session has been cleared, the answer of a fetchCurrentUser
\* that was already in flight sets neither token nor user again, in memory
\* or in persistent storage, in this tab or in another one.
C28_ClearedStaysCleared ==
  [][ (ret'.op = "fetchCurrentUser" /\ ret'.tab \in Tabs /\ Cleared(ret'.tab))
        => (token' = token /\ user' = user /\ storage' = storage) ]_vars

\* ------------------------------------------------ C25

\* a token that cannot be decoded or carries no expiry claim
NoExpiry(tok) == tok # 0 /\ decodeJwtExp(tok).isNull

\* the step assigned token tok to tab t: a login that succeeded, or a
\* profile fetch answered 200
Assigns(t, tok) ==
  /\ ret'.tab = t
  /\ ret'.in.token = tok
  /\ \/ ret'.op = "login" /\ ret'.kind = "ok"
     \/ ret'.op = "fetchCurrentUser" /\ ret'.kind = "user"

\* assigning a token without expiry to tab t leaves it no timer
NoTimerStep(t) ==
  /\ \A tok \in Tokens :
       (NoExpiry(tok) /\ Assigns(t, tok)) =>
         /\ token'[t] = tok
         /\ timers'[t] = {}
         /\ logoutTimerRef'[t] = NoTimer
  /\ NoExpiry(token'[t]) => timers'[t] = {}

\* the step ends the session tab t has with a token without expiry
EndsSession(t) == NoExpiry(token[t]) /\ token'[t] = 0

\* the step is a logout, the handling of an answer 401 or of a cross-tab clear
EndsAsStated(t) ==
  \/ ret'.op \in {"logout", "storage"}
  \/ ret'.in.status = 401

\* or the assignment of another token, which is already expired
EndsOrReplaced(t) ==
  \/ EndsAsStated(t)
  \/ \E tok \in Tokens \ {token[t]} :
       Assigns(t, tok) /\ ~Falsy(decodeJwtExp(tok)) /\ decodeJwtExp(tok).ms <= now

\* C25 as stated: assigning a token that cannot be decoded or carries no
\* expiry claim schedules no timer and cancels the timer left from a previous
\* token; the session then ends only through an explicit logout, an answer
\* 401 or a cross-tab clear.
C25_AsStated ==
  [][ \A t \in Tabs :
        /\ NoTimerStep(t)
        /\ EndsSession(t) => (ret'.tab = t /\ EndsAsStated(t)) ]_vars

\* C25, amended: the same, the session ending also when another token is
\* assigned that has already expired (a later login, or the late answer of a
\* profile fetch sent with an earlier token).
C25_NoTimerWithoutExpiry ==
  [][ \A t \in Tabs :
        /\ NoTimerStep(t)
        /\ EndsSession(t) => (ret'.tab = t /\ EndsOrReplaced(t)) ]_vars

\* a login with a token without expiry has replaced a token whose timer was
\* running
C25_Witness ==
  /\ ret.op = "login" /\ ret.kind = "ok"
  /\ NoExpiry(ret.in.token)
  /\ ret.was # 0 /\ ~Falsy(decodeJwtExp(ret.was)) /\ decodeJwtExp(ret.was).ms > now
  /\ token[ret.tab] = ret.in.token
  /\ timers[ret.tab] = {}

\* ------------------------------------------------ C22

RECURSIVE FirstPresent(_, _, _)
\* the value of the first of the keys that is present and not null in the
\* record, d if there is none
FirstPresent(obj, keys, d) ==
  IF keys = <<>> THEN d
  ELSE LET k == Head(keys) IN
       IF k \in DOMAIN obj /\ obj[k] \notin {"absent", "null"}
       THEN (IF obj[k] = "zero" THEN 0 ELSE PickKeys[k])
       ELSE FirstPresent(obj, Tail(keys), d)

\* C22: picking a field over an ordered list of candidate keys returns the
\* value of the first key that is present and not null in the record, also
\* when that value is zero, and the default only when no candidate key is
\* present; for gross, paid and balance in fetchSummaryByDate, in the
\* dashboard and in the cashier page.
C22_FirstPresentPicked ==
  pick.stage = 1 =>
    LET r == pick.record
        sg == FirstPresent(r, <<"gross", "total", "total_amount">>, 0)
        sp == FirstPresent(r, <<"paid", "paid_amount">>, 0)
        cg == FirstPresent(r, <<"total_amount", "total">>, 0)
        cp == FirstPresent(r, <<"paid_amount", "paid">>, 0)
    IN  /\ pick.summary =
             Picked(sg, sp, FirstPresent(r, <<"balance", "balance_due">>, sg - sp))
        /\ pick.dashboard =
             Picked(sg, sp, FirstPresent(r, <<"balance", "balance_due">>, 0))
        /\ pick.cashier =
             Picked(cg, cp, FirstPresent(r, <<"balance_due">>,
                                         IF cg - cp > 0 THEN cg - cp ELSE 0))

\* ------------------------------------------------ C23

\* the four data sets the dashboard displays
Displayed == <<salesSummary, expenses, refresh.cartonsSummary, cogsSummary>>

Failed(R) == {i \in 1..Len(R.loads) : R.loads[i].state = "failed"}

\* the four data sets as a load of the range sets them
SetBy(range) ==
  LET a == AnswersOf(range) IN
  <<[i \in 1..Len(a.sales) |-> summaryRow(a.sales[i])], a.expenses,
    fetchCartonsBySize(range),
    [sales |-> num(Fin(toNum(a.cogs.sales))), cogs |-> num(Fin(toNum(a.cogs.cogs)))]>>

\* C23: a refresh applies the results of its four fetches only when all four
\* succeed: a step either leaves the four displayed data sets as they are or
\* sets the four of them from one load whose four fetches have resolved; if
\* one of its fetches fails the refresh is reported as failed (the toast
\* shows the error) and none of the four data sets is replaced.
C23_AllOrNothing ==
  [][ /\ \/ Displayed' = Displayed /\ refresh'.from = refresh.from
         \/ \E i \in Pending :
              /\ refresh'.loads[i].ok = Fetches
              /\ Displayed' = SetBy(refresh.loads[i].range)
              /\ refresh'.from = [f \in Fetches |-> i]
      /\ Failed(refresh') # Failed(refresh) =>
           /\ Displayed' = Displayed
           /\ refresh'.toast = "error" ]_vars

\* ------------------------------------------------ C24

\* C24: when two loads overlap and both have completed, the data displayed
\* is the data of the load issued last, whatever the order of the answers,
\* and it matches the range of the filters (as long as no date input was
\* changed since).
C24_LastRequestWins ==
  \A j \in 1..Len(refresh.loads) :
    ( /\ j = Len(refresh.loads)
      /\ refresh.loads[j].before # {}
      /\ \A i \in 1..j : refresh.loads[i].state = "set" )
    => /\ refresh.from = [f \in Fetches |-> j]
       /\ Displayed = SetBy(refresh.loads[j].range)
       /\ ~refresh.edited => Displayed = SetBy(refresh.filters)

\* ------------------------------------------------ C27

\* C27: on /admin/users, once the session is known, a logged-in overall
\* admin gets the users page with full access, a logged-in regular admin
\* gets the same page in read-only mode, and every other visitor is denied
\* (sent to the login page or shown the denied page).
C27_UsersRoute ==
  (route.view.page # "none" /\ ~route.visitor.loading) =>
    LET v == route.visitor
        flags == roleFlags(v.user, isOverallAdmin(v))
    IN  IF isLoggedIn(v) /\ flags.isOverall THEN route.view = View("users", FALSE)
        ELSE IF isLoggedIn(v) /\ flags.isAdmin THEN route.view = View("users", TRUE)
        ELSE route.view.page \in {"login", "denied"}

\* ------------------------------------------------ C30

\* the sum of the amounts of the records of es that are (cogs) or are not
\* of category COGS
CategorySum(es, cogs) ==
  SumOver({i \in 1..Len(es) : CogsCategory(es[i]) = cogs},
          [i \in 1..Len(es) |-> es[i].amount.n])

\* C30: in the dashboard and in the cashier page each expense record of the
\* range is subtracted once from the net: in the dashboard the records of
\* category COGS make the COGS purchases and the others the operating
\* expenses, and in both views net = paid - (OpEx + COGS purchases), no
\* purchase being subtracted twice.
C30_EachExpenseOnce ==
  /\ ret.op = "load" =>
       /\ opExTotal = CategorySum(backend.expenses, FALSE)
       /\ cogsPurchasesTotal = CategorySum(backend.expenses, TRUE)
       /\ net = totalSales.paid - (opExTotal + cogsPurchasesTotal)
  /\ (cashier.expensesBy \in {"listExpenses", "apiGet"}
       /\ cashier.cogsBy \in {"fetchCogsSummary", "apiGet"}) =>
       netSales = totals.paid - (CategorySum(backend.expenses, FALSE)
                                 + CategorySum(backend.expenses, TRUE))

\* ------------------------------------------------ C26

\* the tab holds a token that the server has revoked
HeldRevoked(t) == token[t] # 0 /\ token[t] \in server

\* C26: while a token is held the current-user check is issued again and
\* again, so a session whose token the server has revoked is eventually
\* cleared locally by a check answered with 401; a check of the heartbeat is
\* issued only while the token is held.
C26_RevokedEventuallyCleared ==
  /\ \A t \in Tabs : HeldRevoked(t) ~> (token[t] = 0)
  /\ [][ \A t \in Tabs : (fetchTok[t] = 0 /\ fetchTok'[t] # 0) => token[t] # 0 ]_vars

\* a revoked session was cleared by the 401 answer to a check
C26_Witness ==
  /\ ret.op = "fetchCurrentUser"
  /\ ret.in.status = 401
  /\ ret.was # 0
  /\ ret.was \in server
  /\ token[ret.tab] = 0
  /\ storage[TOKEN_KEY] = 0

====
